---- MODULE Spec2Model ----
(***************************************************************************)
(* State-machine model of hunter's list panels:                            *)
(*   - the generic ListView viewport (src/src/listview.rs),                *)
(*   - the file panel ListView<Files> and FileListBuilder,                 *)
(*   - the process panel ListView<Vec<Process>>, its reader threads and    *)
(*     ProcView (src/src/proclist.rs).                                     *)
(* Each part has its own specification over the shared variable list; a    *)
(* specification leaves the variables of the other parts unchanged.        *)
(***************************************************************************)
EXTENDS Integers, Sequences, FiniteSets, TLC

(***************************************************************************)
(* Bounds of the model.                                                    *)
(***************************************************************************)
MaxLines == 5       \* largest list length of the viewport specification
MaxYSize == 3       \* largest viewport height
MaxCalls == 6       \* longest tracked run of consecutive move_down calls
UsizeMod == 16      \* usize arithmetic is modulo UsizeMod in the model
MaxFileYSize == 2   \* largest viewport height of the file panel
MaxMove == 1        \* largest repeat count of Movement::Up(n) / Down(n)
MaxTyped == 1       \* most updates of one filter minibuffer session
MaxBuildLen == 5    \* largest listing a builder resolves
MaxBuildYSize == 2  \* largest viewport height of a built panel
MaxProcs == 1       \* most processes spawned when commands write output
MaxPanelProcs == 3  \* most processes spawned when commands write nothing
MaxProcYSize == 2   \* largest viewport height of the process panel

VARIABLES
    overflow_checks,  \* build profile: TRUE = overflow panics (debug), FALSE = wraps (release)
    ysize,            \* core.coordinates.ysize(): the viewport height
    selection,        \* ListView.selection
    offset,           \* ListView.offset
    seeking,          \* ListView.seeking
    fault,            \* "none", or how the UI thread stopped: "panic" / "hang"
    lines,            \* Listable::len() of the viewport specification's content
    last_call,        \* the navigation call made by the last step
    downs,            \* number of move_down calls so far when no other call was made, else -1
    content,          \* ListView<Files>.content: the Files listing and its flags
    current_item,     \* ListView<Files>.current_item: a file, or "none"
    searching,        \* ListView<Files>.searching: None or Some(pattern)
    f_last,           \* the file-panel handler run by the last step, when tracked
    b_pc,             \* FileListBuilder::build: "new", "fanout", "done", "failed"
    b_source,         \* how the builder resolves its source: "files", "path", "cache", "stale"
    b_readable,       \* whether resolving the source succeeds
    b_len,            \* number of entries of the listing the source resolves to
    b_select,         \* index of the builder's selected_file in the listing, or -1
    b_meta_all,       \* FileListBuilder.meta_all
    b_pending,        \* indices the fan-out has still to process
    b_active,         \* indices a worker of the fan-out is processing
    b_fail,           \* indices of the entries whose metadata cannot be read
    b_stale,          \* the builder's staleness token has been marked stale
    b_calls,          \* per index, the meta_sync calls the fan-out made
    b_meta,           \* indices whose metadata the fan-out populated
    b_meta_upto,      \* view.content.meta_upto (-1: None)
    c_state,          \* per process, the child: "none", "running", "closed", "exited", "reaped"
    c_todo,           \* per process, the bytes the child has still to write
    c_pipe,           \* per process, the bytes in the stdout pipe
    c_exit,           \* per process, the exit status of the child once exited
    r_pc,             \* per process, where its reader thread is
    r_chunk,          \* per process, the buffer fill_buf returned
    r_log,            \* per process, the buffers fill_buf returned so far, in order
    handle_locked,    \* processes whose handle lock the reader thread holds
    p_cmd,            \* per process, the command it runs
    p_output,         \* per process, Process.output
    p_status,         \* per process, Process.status
    p_success,        \* per process, Process.success
    p_events,         \* per process, the events its reader sent on the channel, in order
    plist,            \* ListView<Vec<Process>>.content
    spawned,          \* number of processes spawned so far
    viewing,          \* ProcView.viewing
    preview,          \* the text installed in the preview pane, and whose it is
    ui_pc,            \* where the UI thread is: "idle", in run_proc before its "append",
                      \* blocked in "kill" / "remove", or in "draw"
    ui_removed,       \* the process the handler being drawn removed, else 0
    lk,               \* per lock of the first process, the thread that holds it
    t_pc,             \* where the first process's reader thread is, lock by lock
    u_op,             \* the UI operation on the first process that is under way
    u_at              \* how many lock operations of u_op the UI thread has done

viewVars == <<overflow_checks, ysize, selection, offset, seeking, fault>>
navVars  == <<lines, last_call, downs>>
fileVars == <<content, current_item, searching, f_last>>
buildVars == <<b_pc, b_source, b_readable, b_len, b_select, b_meta_all, b_pending,
              b_active, b_fail, b_stale, b_calls, b_meta, b_meta_upto>>
childVars == <<c_state, c_todo, c_pipe, c_exit>>
readerVars == <<r_pc, r_chunk, r_log, handle_locked>>
fieldVars == <<p_cmd, p_output, p_status, p_success, p_events>>
uiVars == <<plist, spawned, viewing, preview, ui_pc, ui_removed>>
procVars == <<childVars, readerVars, fieldVars, uiVars>>
lockVars == <<lk, t_pc, u_op, u_at>>

Min(a, b) == IF a <= b THEN a ELSE b
Max(a, b) == IF a >= b THEN a ELSE b

\* Option<String>: None is the empty sequence, Some(x) the one-element sequence.
None == << >>
Some(x) == <<x>>

ProcIds == 1 .. Max(MaxProcs, MaxPanelProcs)

\* Commands: the bytes written to stdout and the exit code.
RichCmds == { [out |-> <<"a", "L", "C">>, code |-> 0], [out |-> <<"a">>, code |-> 1] }

PlainCmds == { [out |-> << >>, code |-> 0] }

NoCmd == [out |-> << >>, code |-> 0]

NoExit == [signaled |-> FALSE, val |-> 0]

(***************************************************************************)
(* The viewport of a ListView as a record, and the navigation methods as   *)
(* functions of it.  len is Listable::len(), y is the viewport height.     *)
(* usize subtraction/addition that leaves 0..UsizeMod-1 panics when the    *)
(* build checks overflow and wraps otherwise.                              *)
(***************************************************************************)
View == [selection |-> selection, offset |-> offset,
         seeking |-> seeking, fault |-> fault]

move_up(v) ==
    IF v.fault # "none" THEN v
    ELSE IF v.selection = 0 THEN v
    ELSE IF v.selection < v.offset /\ overflow_checks
         THEN [v EXCEPT !.fault = "panic"]
    ELSE LET diff == (v.selection - v.offset) % UsizeMod
         IN  [v EXCEPT !.offset = IF diff <= 0 THEN v.offset - 1 ELSE v.offset,
                       !.selection = v.selection - 1,
                       !.seeking = FALSE]

move_down_wrap(v, len, y) ==
    IF v.fault # "none" THEN v
    ELSE IF len = 0 THEN v
    ELSE IF v.selection = len - 1
         THEN [v EXCEPT !.selection = 0, !.offset = 0, !.seeking = FALSE]
    ELSE IF v.selection + 1 >= y /\ v.selection + 1 < v.offset /\ overflow_checks
         THEN [v EXCEPT !.fault = "panic"]
    ELSE LET scroll == /\ v.selection + 1 >= y
                       /\ (v.selection + 1 - v.offset) % UsizeMod >= y
         IN  [v EXCEPT !.offset = IF scroll THEN v.offset + 1 ELSE v.offset,
                       !.selection = v.selection + 1,
                       !.seeking = FALSE]

move_down_noscroll(v, len, y) ==
    IF v.fault # "none" THEN v
    ELSE IF len = 0 \/ v.selection = len - 1 THEN v
    ELSE [v EXCEPT !.selection = v.selection + 1, !.seeking = FALSE]

move_down(v, len, y) ==
    IF v.fault # "none" THEN v
    ELSE IF len = 0 \/ v.selection = len - 1 THEN v
    ELSE IF v.selection + 1 >= y /\ v.selection + 1 < v.offset /\ overflow_checks
         THEN [v EXCEPT !.fault = "panic"]
    ELSE LET scroll == /\ v.selection + 1 >= y
                       /\ (v.selection + 1 - v.offset) % UsizeMod >= y
         IN  [v EXCEPT !.offset = IF scroll THEN v.offset + 1 ELSE v.offset,
                       !.selection = v.selection + 1,
                       !.seeking = FALSE]

\* The loop of set_selection: `while position >= ysize + offset { offset += 1 }`.
\* fuel counts the iterations left before the loop has provably cycled.
RECURSIVE set_selection_loop(_, _, _, _)
set_selection_loop(position, y, off, fuel) ==
    IF y + off >= UsizeMod /\ overflow_checks THEN [offset |-> off, fault |-> "panic"]
    ELSE IF position >= (y + off) % UsizeMod
         THEN IF fuel = 0 THEN [offset |-> off, fault |-> "hang"]
              ELSE set_selection_loop(position, y, (off + 1) % UsizeMod, fuel - 1)
    ELSE [offset |-> off, fault |-> "none"]

set_selection_paged(v, position, y) ==
    IF v.fault # "none" THEN v
    ELSE IF y = 0 THEN [v EXCEPT !.fault = "hang"]
    ELSE [v EXCEPT !.offset = (position \div y) * y, !.selection = position]

set_selection(v, position, y) ==
    IF v.fault # "none" THEN v
    ELSE LET r == set_selection_loop(position, y, 0, UsizeMod)
         IN  IF r.fault # "none" THEN [v EXCEPT !.fault = r.fault]
             ELSE [v EXCEPT !.offset = r.offset, !.selection = position]

move_top(v, y) == set_selection(v, 0, y)

move_bottom(v, len, y) ==
    IF v.fault # "none" THEN v
    ELSE IF len = 0 /\ overflow_checks THEN [v EXCEPT !.fault = "panic"]
    ELSE set_selection(v, (len - 1) % UsizeMod, y)

RECURSIVE repeat_up(_, _)
repeat_up(v, n) == IF n = 0 THEN v ELSE repeat_up(move_up(v), n - 1)

RECURSIVE repeat_down(_, _, _, _)
repeat_down(v, len, y, n) ==
    IF n = 0 THEN v ELSE repeat_down(move_down(v, len, y), len, y, n - 1)

page_up(v, y) == repeat_up(v, y)

page_down(v, len, y) == repeat_down(v, len, y, y)

\* Widget::refresh of a ListView<T> after on_refresh: the selection is clamped.
widget_refresh(v, len) ==
    IF v.fault # "none" THEN v
    ELSE IF v.selection >= len /\ len # 0 THEN [v EXCEPT !.selection = len - 1]
    ELSE v

\* Write a viewport record back to the ListView's fields.
SetView(v) ==
    /\ selection' = v.selection
    /\ offset' = v.offset
    /\ seeking' = v.seeking
    /\ fault' = v.fault

(***************************************************************************)
(* Specification SpecNav: any sequence of navigation calls on one ListView *)
(* whose content has a fixed length.                                       *)
(***************************************************************************)
NavCall(name, v) ==
    /\ fault = "none"
    /\ SetView(v)
    /\ last_call' = name
    /\ UNCHANGED <<overflow_checks, ysize, lines>>
    /\ UNCHANGED <<fileVars, buildVars, procVars, lockVars>>

Nav_move_up ==
    /\ NavCall("move_up", move_up(View))
    /\ downs' = -1

Nav_move_down ==
    /\ NavCall("move_down", move_down(View, lines, ysize))
    /\ downs' = IF downs >= 0 /\ downs < MaxCalls THEN downs + 1 ELSE -1

Nav_page_up ==
    /\ NavCall("page_up", page_up(View, ysize))
    /\ downs' = -1

Nav_page_down ==
    /\ NavCall("page_down", page_down(View, lines, ysize))
    /\ downs' = -1

Nav_move_top ==
    /\ NavCall("move_top", move_top(View, ysize))
    /\ downs' = -1

Nav_move_bottom ==
    /\ NavCall("move_bottom", move_bottom(View, lines, ysize))
    /\ downs' = -1

\* set_selection is called with an index of the content (select_file, move_top,
\* move_bottom, select_prev_mtime), 0 when the content is empty.
Nav_set_selection ==
    /\ \E position \in 0 .. Max(lines, 1) - 1 :
          NavCall("set_selection", set_selection(View, position, ysize))
    /\ downs' = -1

ViewInit ==
    /\ overflow_checks \in BOOLEAN
    /\ selection = 0
    /\ offset = 0
    /\ seeking = FALSE
    /\ fault = "none"

\* The variables of the file panel while another part is specified.
FileIdle ==
    /\ content = [files |-> << >>]
    /\ current_item = "none"
    /\ searching = None
    /\ f_last = "idle"

BuildIdle ==
    /\ b_pc = "idle"
    /\ b_source = "files"
    /\ b_readable = TRUE
    /\ b_len = 0
    /\ b_select = -1
    /\ b_meta_all = FALSE
    /\ b_pending = {}
    /\ b_active = {}
    /\ b_fail = {}
    /\ b_stale = FALSE
    /\ b_calls = << >>
    /\ b_meta = {}
    /\ b_meta_upto = -1

\* The four Arc<Mutex<..>> fields of struct Process.
Locks == {"handle", "output", "status", "success"}

\* No lock is held; no thread is followed lock by lock.
LockIdle ==
    /\ lk = [x \in Locks |-> "free"]
    /\ t_pc = "none"
    /\ u_op = "none"
    /\ u_at = 0

\* ProcView::new: an empty list, nothing viewed, a blank preview.
ProcIdle ==
    /\ c_state = [p \in ProcIds |-> "none"]
    /\ c_todo = [p \in ProcIds |-> << >>]
    /\ c_pipe = [p \in ProcIds |-> << >>]
    /\ c_exit = [p \in ProcIds |-> NoExit]
    /\ r_pc = [p \in ProcIds |-> "none"]
    /\ r_chunk = [p \in ProcIds |-> << >>]
    /\ r_log = [p \in ProcIds |-> << >>]
    /\ handle_locked = {}
    /\ p_cmd = [p \in ProcIds |-> NoCmd]
    /\ p_output = [p \in ProcIds |-> << >>]
    /\ p_status = [p \in ProcIds |-> None]
    /\ p_success = [p \in ProcIds |-> None]
    /\ p_events = [p \in ProcIds |-> << >>]
    /\ plist = << >>
    /\ spawned = 0
    /\ viewing = None
    /\ preview = [proc |-> 0, text |-> << >>]
    /\ ui_pc = "idle"
    /\ ui_removed = 0
    /\ LockIdle

NavInit ==
    /\ ViewInit
    /\ FileIdle
    /\ BuildIdle
    /\ ProcIdle
    /\ ysize \in 1 .. MaxYSize
    /\ lines \in 0 .. MaxLines
    /\ last_call = "new"
    /\ downs = 0

NavNext ==
    \/ Nav_move_up
    \/ Nav_move_down
    \/ Nav_page_up
    \/ Nav_page_down
    \/ Nav_move_top
    \/ Nav_move_bottom
    \/ Nav_set_selection

(***************************************************************************)
(* The file panel, ListView<Files>.  A file is named by an identifier;     *)
(* File equality (PartialEq) is equality of identifiers.  The listing      *)
(* `content` is a record: files (the stored order), sort, reverse,         *)
(* dirs_first, show_hidden, filter, filter_selected and selected (the      *)
(* multi-selected files).  crate::files is outside the modelled sources:   *)
(* the Files operations follow the specification's data model.             *)
(***************************************************************************)
Universe == {"f1", "f2", "f3"}

\* The directories a panel is opened on.
Directories == { {}, {"f2", "f3"}, {"f1", "f2", "f3"} }

\* Patterns typed into the filter minibuffer.
Patterns == { <<"b">>, <<"z">> }

FileName(f) ==
    CASE f = "f1" -> <<".", "a">>
      [] f = "f2" -> <<"a", "b">>
      [] f = "f3" -> <<"B", "a">>
      [] OTHER    -> <<"<empty>">>

IsDir(f) == f = "f2"

IsHidden(f) == FileName(f)[1] = "."

\* Position of the file in the order of names, sizes and modification times.
NameRank(f) ==
    CASE f = "f1" -> 1 [] f = "f3" -> 3 [] f = "f2" -> 4 [] OTHER -> 2

SizeRank(f) ==
    CASE f = "f1" -> 3 [] f = "f2" -> 1 [] f = "f3" -> 2 [] OTHER -> 0

MTimeRank(f) ==
    CASE f = "f1" -> 2 [] f = "f2" -> 3 [] f = "f3" -> 1 [] OTHER -> 0

Contains(name, pat) ==
    \E i \in 1 .. Len(name) - Len(pat) + 1 :
        \A j \in 1 .. Len(pat) : name[i + j - 1] = pat[j]

Range(s) == { s[i] : i \in 1 .. Len(s) }

\* Files::iter_files: the entries that pass the hidden, pattern and selection filters.
Shown(c, f) ==
    \/ f = "placeholder"
    \/ /\ (c.show_hidden \/ ~IsHidden(f))
       /\ (c.filter = None \/ Contains(FileName(f), c.filter[1]))
       /\ (~c.filter_selected \/ f \in c.selected)

Visible(c) == SelectSeq(c.files, LAMBDA f : Shown(c, f))

FLen(c) == Len(Visible(c))

SortKey(c, f) ==
    CASE c.sort = "Name"  -> NameRank(f)
      [] c.sort = "Size"  -> SizeRank(f)
      [] c.sort = "MTime" -> MTimeRank(f)

Before(c, a, b) ==
    IF c.dirs_first /\ IsDir(a) # IsDir(b) THEN IsDir(a)
    ELSE IF c.reverse THEN SortKey(c, b) < SortKey(c, a)
    ELSE SortKey(c, a) < SortKey(c, b)

files_sort(c) ==
    [c EXCEPT !.files = SortSeq(c.files, LAMBDA a, b : Before(c, a, b))]

files_cycle_sort(c) ==
    [c EXCEPT !.sort = CASE c.sort = "Name"  -> "Size"
                         [] c.sort = "Size"  -> "MTime"
                         [] c.sort = "MTime" -> "Name"]

files_reverse_sort(c) == [c EXCEPT !.reverse = ~c.reverse]

remove_placeholder(c) ==
    [c EXCEPT !.files = SelectSeq(c.files, LAMBDA f : f # "placeholder")]

files_toggle_hidden(c) ==
    LET t == [c EXCEPT !.show_hidden = ~c.show_hidden]
    IN  IF t.show_hidden /\ FLen(c) > 1 THEN remove_placeholder(t) ELSE t

files_set_filter(c, flt) ==
    LET t == [c EXCEPT !.filter = flt]
    IN  IF flt = None /\ FLen(c) > 1 THEN remove_placeholder(t) ELSE t

\* Files::new_from_path: the directory's entries in the default order.
new_files(dir) ==
    LET c == [files |-> << >>, sort |-> "Name", reverse |-> FALSE,
              dirs_first |-> TRUE, show_hidden |-> TRUE, filter |-> None,
              filter_selected |-> FALSE, selected |-> {}]
        any == CHOOSE s \in [1 .. Cardinality(dir) -> dir] : Range(s) = dir
    IN  files_sort([c EXCEPT !.files = any])

\* The ListView<Files> as one record: the viewport fields, content, current_item.
FView == [selection |-> selection, offset |-> offset, seeking |-> seeking,
          fault |-> fault, content |-> content, current_item |-> current_item,
          searching |-> searching]

\* Index of the first entry of s equal to f, as Iterator::position: -1 for None.
Position(s, f) ==
    IF \E i \in 1 .. Len(s) : s[i] = f
    THEN (CHOOSE i \in 1 .. Len(s) : s[i] = f /\ \A j \in 1 .. i - 1 : s[j] # f) - 1
    ELSE -1

on_refresh(lv) ==
    IF FLen(lv.content) = 0
    THEN [lv EXCEPT !.content.files = Append(lv.content.files, "placeholder")]
    ELSE lv

\* Widget::refresh of a ListView<Files>.
refresh(lv) ==
    IF lv.fault # "none" THEN lv
    ELSE LET r == on_refresh(lv)
         IN  widget_refresh(r, FLen(r.content))

update_selected_file(lv) ==
    IF lv.fault # "none" THEN lv
    ELSE LET vis == Visible(lv.content)
         IN  [lv EXCEPT !.current_item =
                 IF lv.selection < Len(vis) THEN vis[lv.selection + 1] ELSE "none"]

\* selected_file() unwraps current_item.
unwrap_current(lv) ==
    IF lv.fault = "none" /\ lv.current_item = "none"
    THEN [lv EXCEPT !.fault = "panic"] ELSE lv

select_file(lv, file, y) ==
    IF lv.fault # "none" THEN lv
    ELSE LET pos == Position(Visible(lv.content), file)
         IN  set_selection([lv EXCEPT !.current_item = file],
                           IF pos < 0 THEN 0 ELSE pos, y)

cycle_sort(lv, y) ==
    LET u == unwrap_current(lv)
        t == [u EXCEPT !.content = files_sort(files_cycle_sort(u.content))]
    IN  IF u.fault # "none" THEN u ELSE refresh(select_file(t, u.current_item, y))

reverse_sort(lv, y) ==
    LET u == unwrap_current(lv)
        t == [u EXCEPT !.content = files_sort(files_reverse_sort(u.content))]
    IN  IF u.fault # "none" THEN u ELSE refresh(select_file(t, u.current_item, y))

toggle_hidden(lv, y) ==
    LET u == unwrap_current(lv)
        t == [u EXCEPT !.content = files_toggle_hidden(u.content)]
    IN  IF u.fault # "none" THEN u ELSE refresh(select_file(t, u.current_item, y))

toggle_dirs_first(lv, y) ==
    LET u == unwrap_current(lv)
        t == [u EXCEPT !.content =
                 files_sort([u.content EXCEPT !.dirs_first = ~u.content.dirs_first])]
    IN  IF u.fault # "none" THEN u ELSE refresh(select_file(t, u.current_item, y))

\* The part of select_next_mtime / select_prev_mtime before the step:
\* remember the file, sort by mtime without dirs_first, select the file again.
mtime_sorted(u, y) ==
    select_file([u EXCEPT !.content =
                    files_sort([u.content EXCEPT !.dirs_first = FALSE, !.sort = "MTime"])],
                u.current_item, y)

mtime_restore_sort_only(lv, t, y) ==
    LET u == unwrap_current(t)
        r == [u EXCEPT !.content =
                 files_sort([u.content EXCEPT !.sort = lv.content.sort])]
    IN  IF u.fault # "none" THEN u
        ELSE refresh([select_file(r, u.current_item, y) EXCEPT !.seeking = TRUE])

\* The part after the step: clone_selected_file, restore the sort, select, seeking.
mtime_restore(lv, t, y) ==
    LET u == unwrap_current(t)
        r == [u EXCEPT !.content =
                 files_sort([u.content EXCEPT !.dirs_first = lv.content.dirs_first,
                                              !.sort = lv.content.sort])]
    IN  IF u.fault # "none" THEN u
        ELSE refresh([select_file(r, u.current_item, y) EXCEPT !.seeking = TRUE])

select_next_mtime(lv, y) ==
    LET u == unwrap_current(lv)
        s == mtime_sorted(u, y)
        t == IF s.seeking = FALSE \/ s.selection + 1 >= FLen(s.content)
             THEN [s EXCEPT !.selection = 0, !.offset = 0]
             ELSE move_down(s, FLen(s.content), y)
    IN  IF u.fault # "none" THEN u
        ELSE IF s.fault # "none" THEN s
        ELSE mtime_restore(lv, t, y)

select_prev_mtime(lv, y) ==
    LET u == unwrap_current(lv)
        s == mtime_sorted(u, y)
        n == FLen(s.content)
        t == IF s.seeking = FALSE \/ s.selection = 0
             THEN IF n = 0 /\ overflow_checks THEN [s EXCEPT !.fault = "panic"]
                  ELSE set_selection(s, (n - 1) % UsizeMod, y)
             ELSE move_up(s)
    IN  IF u.fault # "none" THEN u
        ELSE IF s.fault # "none" THEN s
        ELSE mtime_restore(lv, t, y)

\* One MiniBufferInputUpdated(input) round of filter().
filter_update(lv, selected_file, input, y) ==
    select_file(refresh([lv EXCEPT !.content = files_set_filter(lv.content, input)]),
                selected_file, y)

RECURSIVE filter_updates(_, _, _, _)
filter_updates(lv, selected_file, inputs, y) ==
    IF inputs = << >> THEN lv
    ELSE filter_updates(filter_update(lv, selected_file, Some(Head(inputs)), y),
                        selected_file, Tail(inputs), y)

\* filter(): the minibuffer reports each update, then Ok (enter) or an empty
\* or cancelled input.
filter(lv, inputs, end, y) ==
    LET u == unwrap_current(lv)
        t == filter_updates(u, u.current_item, inputs, y)
    IN  IF u.fault # "none" THEN u
        ELSE IF end = "cancel" THEN filter_update(t, u.current_item, None, y)
        ELSE t

\* str::to_lowercase over the letters of the model's names.
to_lowercase(name) ==
    [i \in 1 .. Len(name) |-> IF name[i] = "B" THEN "b" ELSE name[i]]

\* .iter().skip(n).find(|file| file.name.to_lowercase().contains(pat)): the
\* first such file of s after its first n, or "none".
find_after(s, n, pat) ==
    LET hits == { i \in n + 1 .. Len(s) :
                     Contains(to_lowercase(FileName(s[i])), pat) }
    IN  IF hits = {} THEN "none"
        ELSE s[CHOOSE i \in hits : \A j \in hits : i <= j]

\* Files::find_file_with_name: the first listed file whose name matches.
find_file_with_name(c, input) == find_after(Visible(c), 0, input)

search_update(lv, input, y) ==
    IF find_file_with_name(lv.content, input) = "none" THEN lv
    ELSE select_file(lv, find_file_with_name(lv.content, input), y)

RECURSIVE search_updates(_, _, _)
search_updates(lv, inputs, y) ==
    IF inputs = << >> THEN lv
    ELSE search_updates(search_update(lv, Head(inputs), y), Tail(inputs), y)

\* search_file(): the minibuffer reports each update, then Ok(input) on
\* enter, or an empty or cancelled input.
search_file(lv, inputs, end, y) ==
    LET u == unwrap_current(lv)
        t == search_updates(u, inputs, y)
    IN  IF u.fault # "none" THEN u
        ELSE IF end = "enter" /\ inputs # << >>
             THEN [t EXCEPT !.searching = Some(inputs[Len(inputs)])]
        ELSE select_file(t, u.current_item, y)

\* search_next: without a pattern a status is shown and the error returned.
search_next(lv, y) ==
    IF lv.searching = None THEN lv
    ELSE LET file == find_after(lv.content.files, lv.selection + 1, lv.searching[1])
         IN  IF file # "none" THEN select_file(lv, file, y) ELSE lv

search_prev_eager(lv, y) ==
    LET r == reverse_sort(lv, y)
        file == find_after(r.content.files, r.selection + 1,
                           IF lv.searching = None THEN << >> ELSE lv.searching[1])
        rr == reverse_sort(r, y)
    IN  IF lv.searching = None THEN r
        ELSE IF file # "none" THEN select_file(rr, file, y) ELSE rr

search_prev(lv, y) ==
    IF lv.searching = None THEN lv
    ELSE LET r == reverse_sort(lv, y)
             file == find_after(r.content.files, r.selection + 1, lv.searching[1])
             rr == reverse_sort(r, y)
         IN  IF file # "none" THEN select_file(rr, file, y) ELSE rr

\* File::toggle_selection on the entry f of the listing.
toggle_selection(c, f) ==
    [c EXCEPT !.selected = IF f \in @ THEN @ \ {f} ELSE @ \cup {f}]

\* Files::toggle_filter_selected
files_toggle_filter_selected(c) == [c EXCEPT !.filter_selected = ~@]

\* selected_file_mut(): the entry at the selection, or else content.directory.
selected_file_mut(lv) ==
    IF lv.selection < FLen(lv.content)
    THEN Visible(lv.content)[lv.selection + 1] ELSE "directory"

\* multi_select_file: toggle the entry at the selection; without the
\* selection filter step down, with it switch the filter off when nothing
\* is left, and refresh.
multi_select_file(lv, y) ==
    LET u == unwrap_current(
                 [lv EXCEPT !.content = toggle_selection(@, selected_file_mut(lv))])
    IN  IF u.fault # "none" THEN u
        ELSE IF ~u.content.filter_selected THEN move_down(u, FLen(u.content), y)
        ELSE IF FLen(u.content) = 0
        THEN refresh([u EXCEPT !.content = files_toggle_filter_selected(@)])
        ELSE refresh(u)

\* invert_selection: toggle every entry of iter_files_mut.
invert_selection(lv) ==
    LET vis == Range(Visible(lv.content))
        inv == [lv.content EXCEPT !.selected = (@ \ vis) \cup (vis \ @)]
    IN  IF lv.fault # "none" THEN lv
        ELSE IF inv.filter_selected /\ FLen(inv) = 0
        THEN refresh([lv EXCEPT !.content = files_toggle_filter_selected(inv)])
        ELSE refresh([lv EXCEPT !.content = inv])

toggle_filter_selected_always(lv) ==
    IF lv.fault # "none" THEN lv
    ELSE refresh([lv EXCEPT !.content = files_toggle_filter_selected(@)])

\* toggle_filter_selected: toggle, and toggle back when nothing is listed.
toggle_filter_selected(lv) ==
    LET t == files_toggle_filter_selected(lv.content)
    IN  IF lv.fault # "none" THEN lv
        ELSE IF FLen(t) = 0
        THEN refresh([lv EXCEPT !.content = files_toggle_filter_selected(t)])
        ELSE refresh([lv EXCEPT !.content = t])

\* Acting::movement and Acting::do_action end alike: current_item is
\* refreshed when the selection index changed.
finish_acting(lv, t) ==
    IF t.fault = "none" /\ lv.selection # t.selection
    THEN update_selected_file(t) ELSE t

movement(lv, m, n, y) ==
    LET len == FLen(lv.content)
        t == CASE m = "Up"       -> refresh(repeat_up(lv, n))
               [] m = "Down"     -> refresh(repeat_down(lv, len, y, n))
               [] m = "PageUp"   -> page_up(lv, y)
               [] m = "PageDown" -> page_down(lv, len, y)
               [] m = "Top"      -> move_top(lv, y)
               [] m = "Bottom"   -> move_bottom(lv, len, y)
    IN  finish_acting(lv, t)

do_action(lv, a, inputs, end, y) ==
    LET t == CASE a = "Filter"          -> filter(lv, inputs, end, y)
               [] a = "Search"          -> search_file(lv, inputs, end, y)
               [] a = "SearchNext"      -> search_next(lv, y)
               [] a = "SearchPrev"      -> search_prev(lv, y)
               [] a = "Select"          -> multi_select_file(lv, y)
               [] a = "InvertSelection" -> invert_selection(lv)
               [] a = "FilterSelection" -> toggle_filter_selected(lv)
               [] a = "ToggleHidden"    -> toggle_hidden(lv, y)
               [] a = "ReverseSort"     -> reverse_sort(lv, y)
               [] a = "CycleSort"       -> cycle_sort(lv, y)
               [] a = "ToNextMtime"     -> select_next_mtime(lv, y)
               [] a = "ToPrevMtime"     -> select_prev_mtime(lv, y)
               [] a = "ToggleDirsFirst" -> toggle_dirs_first(lv, y)
    IN  finish_acting(lv, t)

\* Listable::on_new of ListView<Files>, run by ListView::new.
\* goto_path, given what Files::new_from_path returns: None for Err, or
\* Some(the directory read).  The error is shown as a status message.
goto_path_keep(lv, res) ==
    IF res = None THEN lv
    ELSE refresh([lv EXCEPT !.content = new_files(res[1])])

goto_path(lv, res) ==
    IF res = None THEN lv
    ELSE refresh([lv EXCEPT !.content = new_files(res[1]),
                            !.selection = 0,
                            !.offset = 0])

on_new(c, show_hidden) ==
    LET t == [c EXCEPT !.show_hidden = show_hidden]
        vis == Visible(t)
    IN  [content |-> t,
         current_item |-> IF Len(vis) > 0 THEN vis[1] ELSE "default"]

SetFView(lv) ==
    /\ SetView(lv)
    /\ content' = lv.content
    /\ current_item' = lv.current_item
    /\ searching' = lv.searching

(***************************************************************************)
(* Specification SpecFiles: a file panel under any sequence of movements   *)
(* and list actions.                                                       *)
(***************************************************************************)
Movements == {"Up", "Down", "PageUp", "PageDown", "Top", "Bottom"}

SimpleActions == {"ToggleHidden", "ReverseSort", "CycleSort", "ToNextMtime",
                  "ToPrevMtime", "ToggleDirsFirst"}

Structural == {"Filter", "ToggleHidden", "ReverseSort", "CycleSort", "ToggleDirsFirst"}

\* The update sequences of one filter session.
FilterInputs ==
    UNION { [1 .. k -> Patterns] : k \in 0 .. MaxTyped }

\* The handlers whose runs f_last records by name; the others leave "other".
Tracked == {"Up", "Down", "SearchNext", "SearchPrev", "ToNextMtime", "ToPrevMtime",
            "Select", "InvertSelection", "FilterSelection"}

FileStep(name, lv) ==
    /\ fault = "none"
    /\ SetFView(lv)
    /\ f_last' = IF name \in Tracked THEN name ELSE "other"
    /\ UNCHANGED <<overflow_checks, ysize>>
    /\ UNCHANGED <<navVars, buildVars, procVars, lockVars>>

File_movement ==
    \E m \in Movements : \E n \in 1 .. MaxMove :
        /\ (m \notin {"Up", "Down"} => n = 1)
        /\ FileStep(m, movement(FView, m, n, ysize))

File_do_action ==
    \E a \in SimpleActions :
        FileStep(a, do_action(FView, a, << >>, "enter", ysize))

File_filter ==
    \E inputs \in FilterInputs : \E end \in {"enter", "cancel"} :
        FileStep("Filter", do_action(FView, "Filter", inputs, end, ysize))

PathResults == {None} \cup { Some(dir) : dir \in Directories }

File_goto_path ==
    \E res \in PathResults :
        FileStep("goto_path", goto_path(FView, res))

SearchPatterns == { <<"a">>, <<"B">> }

SearchInputs ==
    UNION { [1 .. k -> SearchPatterns] : k \in 0 .. MaxTyped }

File_search ==
    \E inputs \in SearchInputs : \E end \in {"enter", "cancel"} :
        FileStep("Search", do_action(FView, "Search", inputs, end, ysize))

File_search_step ==
    \E a \in {"SearchNext", "SearchPrev"} :
        FileStep(a, do_action(FView, a, << >>, "enter", ysize))

SelectActions == {"Select", "InvertSelection", "FilterSelection"}

File_select ==
    \E a \in SelectActions :
        FileStep(a, do_action(FView, a, << >>, "enter", ysize))

\* Widget::refresh run by the event loop between key events.
File_refresh ==
    FileStep("refresh", refresh(FView))

NavIdle ==
    /\ lines = 0
    /\ last_call = "idle"
    /\ downs = -1

FileInit ==
    /\ ViewInit
    /\ NavIdle
    /\ BuildIdle
    /\ ProcIdle
    /\ ysize \in 1 .. MaxFileYSize
    /\ \E dir \in Directories : \E show_hidden \in BOOLEAN :
          LET n == on_new(new_files(dir), show_hidden)
          IN  /\ content = n.content
              /\ current_item = n.current_item
    /\ searching = None
    /\ f_last = "other"

FileNext ==
    \/ File_movement
    \/ File_do_action
    \/ File_filter
    \/ File_goto_path
    \/ File_refresh

\* The offset a stale viewport may drift to before the panel is left alone.
MaxOffset == 3

\* A file panel under movements, multi-selection and filters.
SelectNext ==
    \/ offset <= MaxOffset /\ File_movement
    \/ offset <= MaxOffset /\ File_select
    \/ offset <= MaxOffset /\ File_filter
    \/ offset <= MaxOffset /\ File_refresh

\* A file panel under movements, list actions and searches.
SearchFilesNext ==
    \/ File_movement
    \/ File_do_action
    \/ File_search
    \/ File_search_step
    \/ File_refresh

(***************************************************************************)
(* FileListBuilder::build.  The builder's fields are set before build      *)
(* runs: the source resolves to a listing of b_len visible entries, the    *)
(* pre-selected file is the entry at index b_select (-1: none, or not in   *)
(* the listing), b_meta_all is the meta_all flag.  The par_bridge fan-out  *)
(* takes the entries one by one and runs up to MaxWorkers of them at a     *)
(* time, finishing in any order; b_calls counts the meta_sync calls the    *)
(* fan-out made on each entry and b_meta holds the entries whose metadata  *)
(* it populated.                                                           *)
(***************************************************************************)
Indices(n) == 0 .. n - 1

\* iter_files_mut().skip(from).take(upto): the indices the fan-out visits.
skip_take(len, from, upto) ==
    { i \in Indices(len) : from <= i /\ i < from + upto }

\* FileSource::Files, or FileSource::Path read by Files::new_from_path, by
\* the cache's get_files_sync or by its get_files_sync_stale.
Sources == {"files", "path", "cache", "stale"}

\* The workers of the fan-out's thread pool.
MaxWorkers == 2

Build_source_fallback ==
    /\ b_pc = "new"
    /\ ~b_readable
    /\ b_pc' = "done"
    /\ UNCHANGED <<b_source, b_readable, b_len, b_select, b_meta_all, b_pending,
                   b_active, b_fail, b_stale, b_calls, b_meta, b_meta_upto>>
    /\ UNCHANGED <<viewVars, navVars, fileVars, procVars, lockVars>>

\* Step 1 fails: build returns the error of resolving the source.
Build_source_err ==
    /\ b_pc = "new"
    /\ ~b_readable
    /\ b_pc' = "failed"
    /\ UNCHANGED <<b_source, b_readable, b_len, b_select, b_meta_all, b_pending,
                   b_active, b_fail, b_stale, b_calls, b_meta, b_meta_upto>>
    /\ UNCHANGED <<viewVars, navVars, fileVars, procVars, lockVars>>

\* Steps 1-4: resolve the source, ListView::new, select_file, and the range.
Build_resolve ==
    /\ b_pc = "new"
    /\ b_readable
    /\ LET v == IF b_select >= 0 THEN set_selection(View, b_select, ysize) ELSE View
           from == IF b_meta_all THEN 0 ELSE v.offset
           upto == IF b_meta_all THEN b_len ELSE from + ysize + 1
       IN  /\ SetView(v)
           /\ b_pending' = skip_take(b_len, from, upto)
           /\ b_meta_upto' = upto
    /\ b_pc' = "fanout"
    /\ UNCHANGED <<b_source, b_readable, b_len, b_select, b_meta_all,
                   b_active, b_fail, b_stale, b_calls, b_meta>>
    /\ UNCHANGED <<overflow_checks, ysize, navVars, fileVars, procVars, lockVars>>

\* The holder of the other clone of the staleness token marks it stale.
Build_mark_stale ==
    /\ b_pc = "fanout"
    /\ b_source = "stale"
    /\ ~b_stale
    /\ b_stale' = TRUE
    /\ UNCHANGED <<b_pc, b_source, b_readable, b_len, b_select, b_meta_all, b_pending,
                   b_active, b_fail, b_calls, b_meta, b_meta_upto>>
    /\ UNCHANGED <<viewVars, navVars, fileVars, procVars, lockVars>>

Build_worker_take_polling ==
    /\ b_pc = "fanout"
    /\ Cardinality(b_active) < MaxWorkers
    /\ \E i \in b_pending :
          IF b_stale
          THEN /\ b_pending' = {}
               /\ UNCHANGED <<b_active, b_calls>>
          ELSE /\ b_pending' = b_pending \ {i}
               /\ b_active' = b_active \cup {i}
               /\ b_calls' = [b_calls EXCEPT ![i] = @ + 1]
    /\ UNCHANGED <<b_pc, b_source, b_readable, b_len, b_select, b_meta_all,
                   b_fail, b_stale, b_meta, b_meta_upto>>
    /\ UNCHANGED <<viewVars, navVars, fileVars, procVars, lockVars>>

\* Step 5: par_bridge hands the next entry of the iterator to a free worker.
Build_worker_take ==
    /\ b_pc = "fanout"
    /\ Cardinality(b_active) < MaxWorkers
    /\ \E i \in b_pending :
          /\ b_pending' = b_pending \ {i}
          /\ b_active' = b_active \cup {i}
          /\ b_calls' = [b_calls EXCEPT ![i] = @ + 1]
    /\ UNCHANGED <<b_pc, b_source, b_readable, b_len, b_select, b_meta_all,
                   b_fail, b_stale, b_meta, b_meta_upto>>
    /\ UNCHANGED <<viewVars, navVars, fileVars, procVars, lockVars>>

Build_meta_sync_abort ==
    /\ b_pc = "fanout"
    /\ \E i \in b_active :
          /\ b_active' = b_active \ {i}
          /\ b_pending' = IF i \in b_fail THEN {} ELSE b_pending
          /\ b_meta' = IF i \in b_fail THEN b_meta ELSE b_meta \cup {i}
    /\ UNCHANGED <<b_pc, b_source, b_readable, b_len, b_select, b_meta_all,
                   b_fail, b_stale, b_calls, b_meta_upto>>
    /\ UNCHANGED <<viewVars, navVars, fileVars, procVars, lockVars>>

\* Step 5, one entry: f.meta_sync().log(), which may fail and is then only logged.
Build_meta_sync ==
    /\ b_pc = "fanout"
    /\ \E i \in b_active :
          /\ b_active' = b_active \ {i}
          /\ b_meta' = IF i \in b_fail THEN b_meta ELSE b_meta \cup {i}
    /\ UNCHANGED <<b_pc, b_source, b_readable, b_len, b_select, b_meta_all, b_pending,
                   b_fail, b_stale, b_calls, b_meta_upto>>
    /\ UNCHANGED <<viewVars, navVars, fileVars, procVars, lockVars>>

Build_return_early ==
    /\ b_pc = "fanout"
    /\ b_pending = {}
    /\ b_pc' = "done"
    /\ UNCHANGED <<b_source, b_readable, b_len, b_select, b_meta_all, b_pending,
                   b_active, b_fail, b_stale, b_calls, b_meta, b_meta_upto>>
    /\ UNCHANGED <<viewVars, navVars, fileVars, procVars, lockVars>>

\* Step 6: for_each has joined every worker; build returns Ok(view).
Build_return ==
    /\ b_pc = "fanout"
    /\ b_pending = {}
    /\ b_active = {}
    /\ b_pc' = "done"
    /\ UNCHANGED <<b_source, b_readable, b_len, b_select, b_meta_all, b_pending,
                   b_active, b_fail, b_stale, b_calls, b_meta, b_meta_upto>>
    /\ UNCHANGED <<viewVars, navVars, fileVars, procVars, lockVars>>

BuildInit ==
    /\ ViewInit
    /\ NavIdle
    /\ FileIdle
    /\ ProcIdle
    /\ ysize \in 1 .. MaxBuildYSize
    /\ b_pc = "new"
    /\ b_source \in Sources
    /\ b_readable \in BOOLEAN
    /\ (b_source = "files" => b_readable)
    /\ b_len \in 0 .. MaxBuildLen
    /\ b_select \in -1 .. b_len - 1
    /\ b_meta_all \in BOOLEAN
    /\ b_pending = {}
    /\ b_active = {}
    /\ b_fail \in SUBSET Indices(b_len)
    /\ b_stale = FALSE
    /\ b_calls = [i \in Indices(b_len) |-> 0]
    /\ b_meta = {}
    /\ b_meta_upto = -1

BuildNext ==
    \/ Build_source_err
    \/ Build_resolve
    \/ Build_mark_stale
    \/ Build_worker_take
    \/ Build_meta_sync
    \/ Build_return

(***************************************************************************)
(* The process panel: ListView<Vec<Process>>, the reader thread of each    *)
(* Process and ProcView.  A process is named by its spawn number.  The     *)
(* child writes the bytes of its command to its stdout pipe one at a time, *)
(* may close stdout, and exits; a byte is "a" (ASCII), "L" (the lead byte  *)
(* of a two-byte UTF-8 character) or "C" (its continuation byte).          *)
(*                                                                         *)
(* Each access under a field lock (output, status, success) is one step.   *)
(* The handle lock is state: the reader holds it from handle.lock() before *)
(* wait() to the end of the `if let` (handle_locked); the UI thread takes  *)
(* it within one step and waits while the reader holds it.                 *)
(***************************************************************************)
\* String::from_utf8_lossy on one buffer: a lead byte followed by its
\* continuation byte is one character, any other non-ASCII byte is U+FFFD ("R").
RECURSIVE from_utf8_lossy(_)
from_utf8_lossy(bytes) ==
    IF bytes = << >> THEN << >>
    ELSE IF Head(bytes) = "a" THEN <<"a">> \o from_utf8_lossy(Tail(bytes))
    ELSE IF Head(bytes) = "L" /\ Len(bytes) >= 2 /\ bytes[2] = "C"
         THEN <<"e'">> \o from_utf8_lossy(Tail(Tail(bytes)))
    ELSE <<"R">> \o from_utf8_lossy(Tail(bytes))

\* ExitStatus::success, and code() or else signal().
exit_success(st) == ~st.signaled /\ st.val = 0

exit_status(st) == st.val

(* ------------------------------ the child ------------------------------ *)
Child_write(p) ==
    /\ c_state[p] = "running"
    /\ c_todo[p] # << >>
    /\ c_pipe' = [c_pipe EXCEPT ![p] = Append(@, Head(c_todo[p]))]
    /\ c_todo' = [c_todo EXCEPT ![p] = Tail(@)]
    /\ UNCHANGED <<c_state, c_exit>>
    /\ UNCHANGED <<readerVars, fieldVars, uiVars, viewVars, navVars, fileVars, buildVars, lockVars>>

\* The child closes its stdout and keeps running.
Child_close(p) ==
    /\ c_state[p] = "running"
    /\ c_todo[p] = << >>
    /\ c_state' = [c_state EXCEPT ![p] = "closed"]
    /\ UNCHANGED <<c_todo, c_pipe, c_exit>>
    /\ UNCHANGED <<readerVars, fieldVars, uiVars, viewVars, navVars, fileVars, buildVars, lockVars>>

Child_exit(p) ==
    /\ c_state[p] \in {"running", "closed"}
    /\ c_todo[p] = << >>
    /\ c_state' = [c_state EXCEPT ![p] = "exited"]
    /\ c_exit' = [c_exit EXCEPT ![p] = [signaled |-> FALSE, val |-> p_cmd[p].code]]
    /\ UNCHANGED <<c_todo, c_pipe>>
    /\ UNCHANGED <<readerVars, fieldVars, uiVars, viewVars, navVars, fileVars, buildVars, lockVars>>

(* ------------------------- the reader thread --------------------------- *)
\* stdout.fill_buf() reads the bytes that are in the pipe into the empty
\* buffer of the BufReader (the first call follows handle.lock()?.stdout.take()).
R_fill_data(p) ==
    /\ r_pc[p] = "fill"
    /\ c_pipe[p] # << >>
    /\ r_chunk' = [r_chunk EXCEPT ![p] = c_pipe[p]]
    /\ r_log' = [r_log EXCEPT ![p] = Append(@, c_pipe[p])]
    /\ c_pipe' = [c_pipe EXCEPT ![p] = << >>]
    /\ r_pc' = [r_pc EXCEPT ![p] = "push"]
    /\ UNCHANGED <<handle_locked, c_state, c_todo, c_exit>>
    /\ UNCHANGED <<fieldVars, uiVars, viewVars, navVars, fileVars, buildVars, lockVars>>

\* fill_buf() returns an empty buffer at end of file: the processor returns,
\* and the thread takes the handle lock for wait().
R_fill_eof(p) ==
    /\ r_pc[p] = "fill"
    /\ c_pipe[p] = << >>
    /\ c_state[p] \in {"closed", "exited", "reaped"}
    /\ r_pc' = [r_pc EXCEPT ![p] = "wait"]
    /\ handle_locked' = handle_locked \cup {p}
    /\ UNCHANGED <<r_chunk, r_log, childVars>>
    /\ UNCHANGED <<fieldVars, uiVars, viewVars, navVars, fileVars, buildVars, lockVars>>

push_front(out, chunk) == from_utf8_lossy(chunk) \o out

push_str(out, chunk) == out \o from_utf8_lossy(chunk)

\* output.lock()?.push_str(&buffer)
R_push(p) ==
    /\ r_pc[p] = "push"
    /\ p_output' = [p_output EXCEPT ![p] = push_str(@, r_chunk[p])]
    /\ r_pc' = [r_pc EXCEPT ![p] = "send"]
    /\ UNCHANGED <<r_chunk, r_log, handle_locked, childVars>>
    /\ UNCHANGED <<p_cmd, p_status, p_success, p_events>>
    /\ UNCHANGED <<uiVars, viewVars, navVars, fileVars, buildVars, lockVars>>

\* sender.send(Events::Status("read n chars")); stdout.consume(len)
R_send(p) ==
    /\ r_pc[p] = "send"
    /\ p_events' = [p_events EXCEPT ![p] =
                       Append(@, [kind |-> "read", val |-> Len(r_chunk[p])])]
    /\ r_chunk' = [r_chunk EXCEPT ![p] = << >>]
    /\ r_pc' = [r_pc EXCEPT ![p] = "fill"]
    /\ UNCHANGED <<r_log, handle_locked, childVars>>
    /\ UNCHANGED <<p_cmd, p_output, p_status, p_success>>
    /\ UNCHANGED <<uiVars, viewVars, navVars, fileVars, buildVars, lockVars>>

R_wait_announce(p) ==
    /\ r_pc[p] = "wait"
    /\ c_state[p] = "exited"
    /\ c_state' = [c_state EXCEPT ![p] = "reaped"]
    /\ r_pc' = [r_pc EXCEPT ![p] = "set_success"]
    /\ p_events' = [p_events EXCEPT ![p] =
                       Append(@, [kind |-> "exit", val |-> exit_status(c_exit[p])])]
    /\ UNCHANGED <<r_chunk, r_log, handle_locked, c_todo, c_pipe, c_exit>>
    /\ UNCHANGED <<p_cmd, p_output, p_status, p_success>>
    /\ UNCHANGED <<uiVars, viewVars, navVars, fileVars, buildVars, lockVars>>

\* handle.lock()?.wait() returns once the child has exited, and reaps it.
R_wait(p) ==
    /\ r_pc[p] = "wait"
    /\ c_state[p] = "exited"
    /\ c_state' = [c_state EXCEPT ![p] = "reaped"]
    /\ r_pc' = [r_pc EXCEPT ![p] = "set_success"]
    /\ UNCHANGED <<r_chunk, r_log, handle_locked, c_todo, c_pipe, c_exit>>
    /\ UNCHANGED <<fieldVars, uiVars, viewVars, navVars, fileVars, buildVars, lockVars>>

R_set_success_typo(p) ==
    /\ r_pc[p] = "set_success"
    /\ p_status' = [p_status EXCEPT ![p] = Some(IF exit_success(c_exit[p]) THEN 1 ELSE 0)]
    /\ r_pc' = [r_pc EXCEPT ![p] = "set_status"]
    /\ UNCHANGED <<r_chunk, r_log, handle_locked, childVars>>
    /\ UNCHANGED <<p_cmd, p_output, p_success, p_events>>
    /\ UNCHANGED <<uiVars, viewVars, navVars, fileVars, buildVars, lockVars>>

\* *success.lock()? = Some(proc_success)
R_set_success(p) ==
    /\ r_pc[p] = "set_success"
    /\ p_success' = [p_success EXCEPT ![p] = Some(exit_success(c_exit[p]))]
    /\ r_pc' = [r_pc EXCEPT ![p] = "set_status"]
    /\ UNCHANGED <<r_chunk, r_log, handle_locked, childVars>>
    /\ UNCHANGED <<p_cmd, p_output, p_status, p_events>>
    /\ UNCHANGED <<uiVars, viewVars, navVars, fileVars, buildVars, lockVars>>

R_set_status_early(p) ==
    /\ r_pc[p] \in {"set_success", "set_status"}
    /\ p_status' = [p_status EXCEPT ![p] = Some(exit_status(c_exit[p]))]
    /\ r_pc' = [r_pc EXCEPT ![p] = IF @ = "set_status" THEN "send_exit" ELSE @]
    /\ UNCHANGED <<r_chunk, r_log, handle_locked, childVars>>
    /\ UNCHANGED <<p_cmd, p_output, p_success, p_events>>
    /\ UNCHANGED <<uiVars, viewVars, navVars, fileVars, buildVars, lockVars>>

\* *status.lock()? = Some(proc_status)
R_set_status(p) ==
    /\ r_pc[p] = "set_status"
    /\ p_status' = [p_status EXCEPT ![p] = Some(exit_status(c_exit[p]))]
    /\ r_pc' = [r_pc EXCEPT ![p] = "send_exit"]
    /\ UNCHANGED <<r_chunk, r_log, handle_locked, childVars>>
    /\ UNCHANGED <<p_cmd, p_output, p_success, p_events>>
    /\ UNCHANGED <<uiVars, viewVars, navVars, fileVars, buildVars, lockVars>>

\* The terminal event; the handle guard is dropped at the end of the `if let`.
R_send_exit(p) ==
    /\ r_pc[p] = "send_exit"
    /\ p_events' = [p_events EXCEPT ![p] =
                       Append(@, [kind |-> "exit", val |-> exit_status(c_exit[p])])]
    /\ handle_locked' = handle_locked \ {p}
    /\ r_pc' = [r_pc EXCEPT ![p] = "done"]
    /\ UNCHANGED <<r_chunk, r_log, childVars>>
    /\ UNCHANGED <<p_cmd, p_output, p_status, p_success>>
    /\ UNCHANGED <<uiVars, viewVars, navVars, fileVars, buildVars, lockVars>>

(* ------------------------------ the UI thread -------------------------- *)
PView == [selection |-> selection, offset |-> offset, seeking |-> seeking,
          fault |-> fault, viewing |-> viewing, preview |-> preview]

\* selected_proc(): content.get_mut(selection); 0 stands for None.
selected_proc(v, list) ==
    IF v.selection < Len(list) THEN list[v.selection + 1] ELSE 0

show_output_always(v, list, outputs) ==
    IF v.fault # "none" THEN v
    ELSE IF selected_proc(v, list) = 0 THEN v
    ELSE [v EXCEPT !.preview = [proc |-> selected_proc(v, list),
                                text |-> outputs[selected_proc(v, list)]],
                   !.viewing = Some(v.selection)]

\* ProcView::show_output, given the selected process's output buffer.
show_output(v, list, outputs) ==
    IF v.fault # "none" THEN v
    ELSE IF Some(v.selection) = v.viewing THEN v
    ELSE IF selected_proc(v, list) = 0 THEN v
    ELSE [v EXCEPT !.preview = [proc |-> selected_proc(v, list),
                                text |-> outputs[selected_proc(v, list)]],
                   !.viewing = Some(v.selection)]

\* ProcView::refresh: the hbox refreshes the list, show_output, the list again.
procview_refresh(v, list, outputs) ==
    widget_refresh(show_output(widget_refresh(v, Len(list)), list, outputs), Len(list))

\* Child::kill on the child of p: SIGKILL ends a live child.
child_kill(p) ==
    IF c_state[p] \in {"running", "closed"}
    THEN /\ c_state' = [c_state EXCEPT ![p] = "exited"]
         /\ c_exit' = [c_exit EXCEPT ![p] = [signaled |-> TRUE, val |-> 9]]
         /\ c_todo' = [c_todo EXCEPT ![p] = << >>]
         /\ UNCHANGED c_pipe
    ELSE UNCHANGED childVars

SetPView(v) ==
    /\ SetView(v)
    /\ viewing' = v.viewing
    /\ preview' = v.preview

\* run_proc up to read_proc: spawn the shell, make the Process with empty
\* fields, start its reader thread.
UI_run_proc(maxProcs, cmds) ==
    /\ fault = "none" /\ ui_pc = "idle"
    /\ spawned < maxProcs
    /\ spawned' = spawned + 1
    /\ \E cmd \in cmds :
          /\ p_cmd' = [p_cmd EXCEPT ![spawned + 1] = cmd]
          /\ c_todo' = [c_todo EXCEPT ![spawned + 1] = cmd.out]
    /\ c_state' = [c_state EXCEPT ![spawned + 1] = "running"]
    /\ r_pc' = [r_pc EXCEPT ![spawned + 1] = "fill"]
    /\ ui_pc' = "append"
    /\ UNCHANGED <<c_pipe, c_exit, r_chunk, r_log, handle_locked>>
    /\ UNCHANGED <<p_output, p_status, p_success, p_events>>
    /\ UNCHANGED <<plist, viewing, preview, ui_removed>>
    /\ UNCHANGED <<viewVars, navVars, fileVars, buildVars, lockVars>>

UI_push_front ==
    /\ ui_pc = "append"
    /\ plist' = <<spawned>> \o plist
    /\ ui_pc' = "idle"
    /\ UNCHANGED <<spawned, viewing, preview, ui_removed>>
    /\ UNCHANGED <<childVars, readerVars, fieldVars>>
    /\ UNCHANGED <<viewVars, navVars, fileVars, buildVars, lockVars>>

\* run_proc after read_proc: self.content.push(proc).
UI_push ==
    /\ ui_pc = "append"
    /\ plist' = Append(plist, spawned)
    /\ ui_pc' = "idle"
    /\ UNCHANGED <<spawned, viewing, preview, ui_removed>>
    /\ UNCHANGED <<childVars, readerVars, fieldVars>>
    /\ UNCHANGED <<viewVars, navVars, fileVars, buildVars, lockVars>>

\* run_proc when Command::spawn fails: the error is returned, nothing is pushed.
UI_run_proc_fail ==
    /\ fault = "none" /\ ui_pc = "idle"
    /\ UNCHANGED <<childVars, readerVars, fieldVars, uiVars>>
    /\ UNCHANGED <<viewVars, navVars, fileVars, buildVars, lockVars>>

\* ProcView::refresh, called by the widget framework.
UI_refresh ==
    /\ fault = "none" /\ ui_pc = "idle"
    /\ SetPView(procview_refresh(PView, plist, p_output))
    /\ ui_pc' = "draw"
    /\ UNCHANGED <<plist, spawned, ui_removed>>
    /\ UNCHANGED <<overflow_checks, ysize>>
    /\ UNCHANGED <<childVars, readerVars, fieldVars, navVars, fileVars, buildVars, lockVars>>

\* on_key(Up / 'p') and on_key(Down / 'n'), up to the draw.
UI_key_move ==
    /\ fault = "none" /\ ui_pc = "idle"
    /\ \E k \in {"Up", "Down"} :
          LET m == IF k = "Up" THEN move_up(PView)
                   ELSE move_down(PView, Len(plist), ysize)
          IN  SetPView(procview_refresh(m, plist, p_output))
    /\ ui_pc' = IF fault' = "none" THEN "draw" ELSE "idle"
    /\ UNCHANGED <<plist, spawned, ui_removed>>
    /\ UNCHANGED <<overflow_checks, ysize>>
    /\ UNCHANGED <<childVars, readerVars, fieldVars, navVars, fileVars, buildVars, lockVars>>

UI_key_d_empty_unguarded ==
    /\ fault = "none" /\ ui_pc = "idle"
    /\ Len(plist) = 0
    /\ fault' = "panic"
    /\ UNCHANGED <<selection, offset, seeking, viewing, preview, ui_pc>>
    /\ UNCHANGED <<plist, spawned, ui_removed>>
    /\ UNCHANGED <<overflow_checks, ysize>>
    /\ UNCHANGED <<childVars, readerVars, fieldVars, navVars, fileVars, buildVars, lockVars>>

\* on_key('d') on an empty panel: ProcView::remove_proc returns at once.
UI_key_d_empty ==
    /\ fault = "none" /\ ui_pc = "idle"
    /\ Len(plist) = 0
    /\ SetPView(procview_refresh(PView, plist, p_output))
    /\ ui_pc' = "draw"
    /\ UNCHANGED <<plist, spawned, ui_removed>>
    /\ UNCHANGED <<overflow_checks, ysize>>
    /\ UNCHANGED <<childVars, readerVars, fieldVars, navVars, fileVars, buildVars, lockVars>>

\* Vec::remove(index): the list without the element at index.
vec_remove_first(list, index) == Tail(list)

vec_remove(list, index) ==
    SubSeq(list, 1, index) \o SubSeq(list, index + 2, Len(list))

\* on_key('d') on a panel with processes: kill_proc().ok() (which waits for
\* the handle lock), content.remove(selection), a blank preview, refresh.
UI_remove ==
    /\ fault = "none" /\ ui_pc \in {"idle", "remove"}
    /\ Len(plist) # 0
    /\ LET p == selected_proc(PView, plist)
       IN  /\ p \notin handle_locked
           /\ IF p # 0 THEN child_kill(p) ELSE UNCHANGED childVars
           /\ IF p = 0
              THEN /\ fault' = "panic"
                   /\ UNCHANGED <<selection, offset, seeking, viewing, preview,
                                  plist, ui_removed>>
                   /\ ui_pc' = "idle"
              ELSE LET rest == vec_remove(plist, selection)
                       blank == [PView EXCEPT !.preview = [proc |-> 0, text |-> << >>]]
                   IN  /\ plist' = rest
                       /\ SetPView(procview_refresh(blank, rest, p_output))
                       /\ ui_removed' = p
                       /\ ui_pc' = "draw"
    /\ UNCHANGED <<spawned, overflow_checks, ysize>>
    /\ UNCHANGED <<readerVars, fieldVars, navVars, fileVars, buildVars, lockVars>>

\* on_key('k'): kill_proc()? (which waits for the handle lock); an error
\* returns before refresh and draw.
\* Child::kill on a child already reaped is an error or Ok by library version.
UI_kill ==
    /\ fault = "none" /\ ui_pc \in {"idle", "kill"}
    /\ LET p == selected_proc(PView, plist)
       IN  /\ p \notin handle_locked
           /\ IF p # 0 THEN child_kill(p) ELSE UNCHANGED childVars
           /\ \E ok \in BOOLEAN :
                 /\ p = 0 => ~ok
                 /\ (p # 0 /\ c_state[p] # "reaped") => ok
                 /\ IF ok
                    THEN /\ SetPView(procview_refresh(PView, plist, p_output))
                         /\ ui_pc' = "draw"
                    ELSE /\ UNCHANGED <<selection, offset, seeking, fault, viewing, preview>>
                         /\ ui_pc' = "idle"
    /\ UNCHANGED <<plist, spawned, ui_removed, overflow_checks, ysize>>
    /\ UNCHANGED <<readerVars, fieldVars, navVars, fileVars, buildVars, lockVars>>

\* on_key('d') / on_key('k') while the reader thread holds the handle lock of
\* the selected process: the UI thread blocks in kill_proc at handle.lock().
UI_lock_wait ==
    /\ fault = "none" /\ ui_pc = "idle"
    /\ selected_proc(PView, plist) \in handle_locked
    /\ \E k \in {"kill", "remove"} : ui_pc' = k
    /\ UNCHANGED <<plist, spawned, viewing, preview, ui_removed>>
    /\ UNCHANGED <<childVars, readerVars, fieldVars>>
    /\ UNCHANGED <<viewVars, navVars, fileVars, buildVars, lockVars>>

\* draw(): render_proc locks the handle of every listed process.
UI_draw ==
    /\ ui_pc = "draw"
    /\ \A i \in 1 .. Len(plist) : plist[i] \notin handle_locked
    /\ ui_pc' = "idle"
    /\ ui_removed' = 0
    /\ UNCHANGED <<plist, spawned, viewing, preview>>
    /\ UNCHANGED <<childVars, readerVars, fieldVars>>
    /\ UNCHANGED <<viewVars, navVars, fileVars, buildVars, lockVars>>

\* A panel of the largest height: the list of SpecProc never scrolls.
ProcInit ==
    /\ ViewInit
    /\ NavIdle
    /\ FileIdle
    /\ BuildIdle
    /\ ysize = MaxProcYSize
    /\ ProcIdle

PanelInit ==
    /\ ViewInit
    /\ NavIdle
    /\ FileIdle
    /\ BuildIdle
    /\ ysize \in 1 .. MaxProcYSize
    /\ ProcIdle

ThreadStep(p) ==
    \/ Child_write(p)
    \/ Child_close(p)
    \/ Child_exit(p)
    \/ R_fill_data(p)
    \/ R_fill_eof(p)
    \/ R_push(p)
    \/ R_send(p)
    \/ R_wait(p)
    \/ R_set_success(p)
    \/ R_set_status(p)
    \/ R_send_exit(p)

UIStep ==
    \/ UI_run_proc_fail
    \/ UI_push
    \/ UI_refresh
    \/ UI_key_move
    \/ UI_key_d_empty
    \/ UI_remove
    \/ UI_kill
    \/ UI_lock_wait
    \/ UI_draw

ProcNext ==
    \/ \E p \in ProcIds : ThreadStep(p)
    \/ UI_run_proc(MaxProcs, RichCmds)
    \/ UIStep

\* The steps of a child that writes nothing and of its reader thread.
QuietThreadStep(p) ==
    \/ Child_close(p)
    \/ Child_exit(p)
    \/ R_fill_eof(p)
    \/ R_wait(p)
    \/ R_set_success(p)
    \/ R_set_status(p)
    \/ R_send_exit(p)

PanelNext ==
    \/ \E p \in ProcIds : QuietThreadStep(p)
    \/ UI_run_proc(MaxPanelProcs, PlainCmds)
    \/ UIStep

vars == <<viewVars, navVars, fileVars, buildVars, childVars, readerVars, fieldVars, uiVars,
          lockVars>>

SpecNav == NavInit /\ [][NavNext]_vars

SpecFiles == FileInit /\ [][FileNext]_vars

SpecSearch == FileInit /\ [][SearchFilesNext]_vars

SpecSelect == FileInit /\ [][SelectNext]_vars

SpecBuild == BuildInit /\ [][BuildNext]_vars

\* Up to MaxProcs processes running the commands with output.
SpecProc == ProcInit /\ [][ProcNext]_vars

\* Up to MaxPanelProcs processes running commands without output.
SpecPanel == PanelInit /\ [][PanelNext]_vars

\* A reader thread that can take a step takes it, and so does the UI thread
\* inside a handler; a child need never exit and a user need never press a key.
ReaderStep(p) ==
    \/ R_fill_data(p)
    \/ R_fill_eof(p)
    \/ R_push(p)
    \/ R_send(p)
    \/ R_wait(p)
    \/ R_set_success(p)
    \/ R_set_status(p)
    \/ R_send_exit(p)

UI_resume == ui_pc # "idle" /\ (UI_push \/ UI_kill \/ UI_remove \/ UI_draw)

ProcFairness ==
    /\ \A p \in ProcIds : WF_vars(ReaderStep(p))
    /\ WF_vars(UI_resume)

SpecProcFair == ProcInit /\ [][ProcNext]_vars /\ ProcFairness

(***************************************************************************)
(* C1: after every navigation call the call has returned and               *)
(* 0 <= selection < max(len,1), offset <= selection and                    *)
(* selection - offset < viewport_height.                                   *)
(***************************************************************************)
C1_ViewportInvariant ==
    /\ fault = "none"
    /\ 0 <= selection
    /\ selection < Max(lines, 1)
    /\ offset <= selection
    /\ selection - offset < ysize

(***************************************************************************)
(* C2: from (selection=0, offset=0) on len >= 1 items, k consecutive       *)
(* move_down calls give selection = min(k, len-1) and                      *)
(* offset = max(0, selection - h + 1).                                     *)
(***************************************************************************)
C2_MoveDownRun ==
    (downs >= 0 /\ lines >= 1) =>
        /\ selection = Min(downs, lines - 1)
        /\ offset = Max(0, selection - ysize + 1)
        /\ fault = "none"

\* 5 items, height 3: the fifth move_down has been made and left (4, 2).
C2_Witness ==
    /\ lines = 5 /\ ysize = 3 /\ downs = 5
    /\ selection = 4 /\ offset = 2

(***************************************************************************)
(* C3: move_up at selection 0, and move_down on an empty list or at the    *)
(* last entry, leave selection, offset and seeking unchanged; moving up    *)
(* (or paging up) never increases the selection and moving down (or paging *)
(* down) never decreases it, so no call wraps around.                      *)
(***************************************************************************)
PagedBy(m) == FileStep(m, movement(FView, m, 1, ysize))

C3_PastEndNoOp ==
    [][ /\ (f_last' = "Up" /\ selection = 0)
            => UNCHANGED <<selection, offset, seeking>>
        /\ (f_last' = "Down" /\ (FLen(content) = 0 \/ selection = FLen(content) - 1))
            => UNCHANGED <<selection, offset, seeking>>
        /\ (f_last' = "Up" \/ PagedBy("PageUp")) => selection' <= selection
        /\ (f_last' = "Down" \/ PagedBy("PageDown")) => selection' >= selection
      ]_vars

\* An Up movement has run at selection 0 during an mtime walk and left it seeking.
C3_Witness ==
    /\ f_last = "Up"
    /\ selection = 0
    /\ seeking = TRUE
    /\ FLen(content) >= 2

(***************************************************************************)
(* C4: after cycle_sort, reverse_sort, toggle_dirs_first, toggle_hidden or *)
(* a filter session, the entry selected before is selected again at its    *)
(* new index when it is still visible, and selection is 0 when it is not.  *)
(* Stated for the entries of the directory (not the placeholder row).      *)
(***************************************************************************)
StructuralStep ==
    \/ \E a \in Structural \ {"Filter"} :
          FileStep(a, do_action(FView, a, << >>, "enter", ysize))
    \/ File_filter

C4_SelectionIdentity ==
    [][ (StructuralStep /\ fault' = "none" /\ selection < FLen(content)) =>
            LET e == Visible(content)[selection + 1]
                after == Visible(content')
            IN  e \in Universe =>
                    IF e \in Range(after)
                    THEN selection' < Len(after) /\ after[selection' + 1] = e
                    ELSE selection' = 0
      ]_vars

(***************************************************************************)
(* C5: a build without meta_all fetches metadata, in its fan-out, for      *)
(* exactly the entries at indices [offset, min(len, offset + height + 1))  *)
(* of the resulting view.                                                  *)
(***************************************************************************)
C5_PopulationScope ==
    (b_pc = "done" /\ ~b_meta_all) =>
        { i \in Indices(b_len) : b_calls[i] > 0 }
            = { i \in Indices(b_len) : offset <= i /\ i < Min(b_len, offset + ysize + 1) }

(***************************************************************************)
(* C6: status and success of a process are each written at most once, only *)
(* by the process's reader thread after wait() on the child has returned;  *)
(* once written they never change, whatever the UI thread does afterwards  *)
(* (kill_proc, draw, remove_proc).                                         *)
(***************************************************************************)
C6_StatusWrittenOnce ==
    [][ \A p \in ProcIds :
           /\ p_status[p] # None => p_status'[p] = p_status[p]
           /\ p_success[p] # None => p_success'[p] = p_success[p]
           /\ p_status'[p] # p_status[p] => (R_set_status(p) /\ c_state[p] = "reaped")
           /\ p_success'[p] # p_success[p] => (R_set_success(p) /\ c_state[p] = "reaped")
      ]_vars

\* A process that exited with code 0 has been removed by the handler now drawing.
C6_Witness ==
    \E p \in ProcIds :
        /\ ui_removed = p
        /\ p_status[p] = Some(0)
        /\ p_success[p] = Some(TRUE)
        /\ r_pc[p] = "done"

(***************************************************************************)
(* C7: the events one process sends on the channel are zero or more        *)
(* read events followed by at most one terminal event, and the terminal    *)
(* event is sent only after status and success have been written.          *)
(***************************************************************************)
C7_EventOrder ==
    \A p \in ProcIds :
        /\ \A i \in 1 .. Len(p_events[p]) :
              p_events[p][i].kind = "exit" => i = Len(p_events[p])
        /\ (Len(p_events[p]) > 0 /\ p_events[p][Len(p_events[p])].kind = "exit")
              => (p_status[p] # None /\ p_success[p] # None)

\* Two read events and then the terminal event.
C7_Witness ==
    \E p \in ProcIds :
        /\ Len(p_events[p]) = 3
        /\ p_events[p][1].kind = "read"
        /\ p_events[p][2].kind = "read"
        /\ p_events[p][3].kind = "exit"

(***************************************************************************)
(* C8: a child that writes a finite output and exits with code 0 ends,     *)
(* under fair scheduling of its reader, with the output buffer holding     *)
(* exactly what the child wrote, status Some(0), success Some(true) and    *)
(* exactly one terminal event.  Nothing of a process changes once its      *)
(* reader thread has ended, so the claim requires this of every state in   *)
(* which the reader of such a child has ended.                             *)
(***************************************************************************)
C8_CleanExitCompletes ==
    \A p \in ProcIds :
        (r_pc[p] = "done" /\ ~c_exit[p].signaled /\ c_exit[p].val = 0) =>
            /\ p_output[p] = from_utf8_lossy(p_cmd[p].out)
            /\ p_status[p] = Some(0)
            /\ p_success[p] = Some(TRUE)
            /\ Cardinality({ i \in 1 .. Len(p_events[p]) :
                                p_events[p][i].kind = "exit" }) = 1

(***************************************************************************)
(* C9: the output buffer of a process only grows at its end: it is always  *)
(* the concatenation, in read order, of the decoded chunks its reader has  *)
(* read (up to the one chunk read and not yet pushed), and every earlier   *)
(* content is a prefix of every later content.                             *)
(***************************************************************************)
RECURSIVE concat_lossy(_)
concat_lossy(chunks) ==
    IF chunks = << >> THEN << >>
    ELSE from_utf8_lossy(Head(chunks)) \o concat_lossy(Tail(chunks))

Pushed(pc, log) == IF pc = "push" THEN SubSeq(log, 1, Len(log) - 1) ELSE log

IsPrefix(s, t) == Len(s) <= Len(t) /\ SubSeq(t, 1, Len(s)) = s

C9_AppendOnly ==
    /\ [](\A p \in ProcIds : p_output[p] = concat_lossy(Pushed(r_pc[p], r_log[p])))
    /\ [][ \A p \in ProcIds : IsPrefix(p_output[p], p_output'[p]) ]_vars

\* Two chunks that decode differently have been pushed.
C9_Witness ==
    \E p \in ProcIds :
        /\ r_log[p] = << <<"a">>, <<"L", "C">> >>
        /\ p_output[p] = <<"a", "e'">>

(***************************************************************************)
(* C10: remove_proc on a panel with processes removes exactly the entry at *)
(* the selection, whether or not the kill succeeds; the other entries stay *)
(* in their order.                                                         *)
(***************************************************************************)
C10_RemoveSelected ==
    [][ UI_remove =>
           /\ fault' = "none"
           /\ Len(plist') = Len(plist) - 1
           /\ \A i \in 1 .. Len(plist') :
                 plist'[i] = plist[IF i <= selection THEN i ELSE i + 1]
      ]_vars

\* The middle one of three processes, which had exited on its own, was removed.
C10_Witness ==
    /\ ui_removed = 2
    /\ plist = <<1, 3>>
    /\ r_pc[2] = "done"
    /\ ~c_exit[2].signaled

(***************************************************************************)
(* C11: a reader thread holds none of its process's locks while it is      *)
(* blocked in a read of stdout or in waiting for the child to exit, so the *)
(* UI thread never waits for a lock on subprocess I/O.  The field locks    *)
(* (output, status, success) are taken within single steps; the handle     *)
(* lock is the one that can be held across steps.                          *)
(***************************************************************************)
ReaderBlocked(p) ==
    \/ r_pc[p] = "fill" /\ c_pipe[p] = << >> /\ c_state[p] = "running"
    \/ r_pc[p] = "wait" /\ c_state[p] \in {"running", "closed"}

C11_NoLockAcrossIO ==
    \A p \in ProcIds : ReaderBlocked(p) => p \notin handle_locked

(***************************************************************************)
(* C12: a kill_proc call on a process whose child is still running         *)
(* eventually returns, and the process then eventually has its status      *)
(* set, also when the child has closed its stdout and not exited.  A call  *)
(* that finds the handle lock free returns within its step; a call that    *)
(* finds it taken is at ui_pc = "kill".                                    *)
(***************************************************************************)
ChildAlive(p) == c_state[p] \in {"running", "closed"}

C12_KillCompletes ==
    \A p \in ProcIds :
        /\ (ui_pc = "kill" /\ selected_proc(PView, plist) = p /\ ChildAlive(p))
              ~> (ui_pc # "kill")
        /\ (ui_pc = "kill" /\ selected_proc(PView, plist) = p /\ ChildAlive(p))
              ~> (p_status[p] # None)
        /\ c_exit[p].signaled ~> (p_status[p] # None)

(***************************************************************************)
(* C13: after every ProcView refresh of a panel with processes (the UI     *)
(* thread is then at its draw), the preview shows the output of the        *)
(* selected process, whatever run_proc, 'd', Up and Down keys came before. *)
(***************************************************************************)
C13_PreviewFollowsSelection ==
    (ui_pc = "draw" /\ fault = "none" /\ Len(plist) > 0) =>
        /\ selection < Len(plist)
        /\ preview.proc = plist[selection + 1]

(***************************************************************************)
(* C14: goto_path on a path that cannot be read leaves content, selection  *)
(* and offset as they were; goto_path on a readable path replaces the      *)
(* content by the listing of that path and sets selection and offset to 0. *)
(***************************************************************************)
GotoStep(res) == FileStep("goto_path", goto_path(FView, res))

C14_GotoPath ==
    [][ /\ GotoStep(None) => UNCHANGED <<content, selection, offset>>
        /\ \A dir \in Directories :
              GotoStep(Some(dir)) =>
                  /\ { f \in Range(content'.files) : f # "placeholder" } = dir
                  /\ selection' = 0
                  /\ offset' = 0
      ]_vars

\* A listing was replaced while the cursor was on a file the new one lacks.
C14_Witness ==
    /\ current_item \in Universe
    /\ current_item \notin Range(content.files)
    /\ Range(content.files) = {"f2", "f3"}
    /\ selection = 0 /\ offset = 0

(***************************************************************************)
(* C15: when resolving the source fails, by whichever way the builder      *)
(* reads it, build returns the error: no view is produced and no entry's   *)
(* metadata is fetched.                                                    *)
(***************************************************************************)
C15_SourceErrorAborts ==
    (~b_readable /\ b_pc # "new") =>
        /\ b_pc = "failed"
        /\ \A i \in Indices(b_len) : b_calls[i] = 0
        /\ b_meta = {}
        /\ b_meta_upto = -1
        /\ selection = 0 /\ offset = 0

\* The stale-checked read through the cache failed for a listing with a
\* pre-selected file.
C15_Witness ==
    /\ b_pc = "failed"
    /\ b_source = "stale"
    /\ b_len >= 2
    /\ b_select >= 1

(***************************************************************************)
(* C16: a failed metadata fetch in the fan-out costs only its own entry:   *)
(* when build returns, every entry of the populate range has had its       *)
(* fetch (so it has metadata unless its own fetch failed), and a build     *)
(* whose source resolved never returns an error.                           *)
(***************************************************************************)
PopulateRange ==
    IF b_meta_all THEN Indices(b_len)
    ELSE { i \in Indices(b_len) : offset <= i /\ i < offset + ysize + 1 }

FetchFailed == { i \in Indices(b_len) : b_calls[i] > 0 /\ i \notin b_meta }

SearchNextStep ==
    FileStep("SearchNext", do_action(FView, "SearchNext", << >>, "enter", ysize))

\* The listed positions (0-based) after the selection whose name contains
\* the pattern, letters compared without regard to case.
LaterMatches ==
    { i \in selection + 1 .. FLen(content) - 1 :
        Contains(to_lowercase(FileName(Visible(content)[i + 1])),
                 to_lowercase(searching[1])) }

\* C17: with a pattern set, search_next selects the first entry after the
\* selection whose name contains the pattern; when there is none, selection
\* and offset stay as they were (no wrap-around).
C17_SearchNextForward ==
    [][(SearchNextStep /\ searching # None /\ fault = "none")
        => IF LaterMatches # {}
           THEN /\ selection' \in LaterMatches
                /\ \A i \in LaterMatches : selection' <= i
           ELSE /\ selection' = selection
                /\ offset' = offset]_vars

\* A call of search_next or search_prev through do_action.
SearchStep ==
    \E a \in {"SearchNext", "SearchPrev"} :
        FileStep(a, do_action(FView, a, << >>, "enter", ysize))

\* C18: search_next and search_prev with no pattern set leave the content
\* (order and sort settings), the selection, the offset and current_item
\* as they were.
C18_NoPatternNoChange ==
    [][(SearchStep /\ searching = None)
        => UNCHANGED <<content, selection, offset, current_item>>]_vars

C18_Witness ==
    /\ f_last = "SearchPrev"
    /\ searching = None
    /\ fault = "none"
    /\ selection > 0
    /\ FLen(content) > 1

\* A call set_selection(position) on the list view.
SetSelectionStep(position) ==
    NavCall("set_selection", set_selection(View, position, ysize))

\* C19 as stated: after set_selection(pos) with a viewport height h >= 1,
\* selection = pos and offset = floor(pos / h) * h (paged scrolling).
C19_PagedOffset ==
    [][\A position \in 0 .. MaxLines - 1 :
          (SetSelectionStep(position) /\ ysize >= 1)
          => /\ selection' = position
             /\ offset' = (position \div ysize) * ysize]_vars

\* C19 amended: after set_selection(pos) with a viewport height h >= 1,
\* selection = pos and offset is the smallest offset with pos < offset + h,
\* that is 0 while pos < h and pos - h + 1 from there on.
C19_SmallestOffset ==
    [][\A position \in 0 .. MaxLines - 1 :
          (SetSelectionStep(position) /\ ysize >= 1)
          => /\ selection' = position
             /\ offset' = IF position < ysize THEN 0
                          ELSE position - ysize + 1]_vars

C19_Witness ==
    /\ last_call = "set_selection"
    /\ fault = "none"
    /\ ysize >= 2
    /\ selection >= ysize
    /\ offset = selection - ysize + 1
    /\ offset % ysize # 0

\* A call of select_next_mtime / select_prev_mtime through do_action.
NextMtimeStep ==
    FileStep("ToNextMtime", do_action(FView, "ToNextMtime", << >>, "enter", ysize))

PrevMtimeStep ==
    FileStep("ToPrevMtime", do_action(FView, "ToPrevMtime", << >>, "enter", ysize))

\* The listed entries in the order the walk sorts them: by mtime, without
\* dirs_first.
MtimeOrder ==
    Visible(files_sort([content EXCEPT !.dirs_first = FALSE, !.sort = "MTime"]))

\* The listed entry at index i (0-based) of the panel, "none" past the end.
EntryAt(c, i) == IF i < FLen(c) THEN Visible(c)[i + 1] ELSE "none"

\* The place of the selected entry in mtime order (0-based).
MtimePos == Position(MtimeOrder, EntryAt(content, selection))

\* C20: select_next_mtime while not seeking selects the first entry in mtime
\* order; a select_next_mtime that immediately follows one (seeking), with
\* the selected entry not the last in mtime order, selects the successor of
\* the entry selected before the call.  select_prev_mtime is symmetric: the
\* last entry, then the predecessor.
C20_MtimeWalkAdvances ==
    [][/\ (NextMtimeStep /\ fault' = "none" /\ selection < FLen(content))
          => /\ ~seeking => EntryAt(content', selection') = MtimeOrder[1]
             /\ (seeking /\ f_last = "ToNextMtime"
                   /\ MtimePos + 1 < Len(MtimeOrder))
                => EntryAt(content', selection') = MtimeOrder[MtimePos + 2]
       /\ (PrevMtimeStep /\ fault' = "none" /\ selection < FLen(content))
          => /\ ~seeking
                => EntryAt(content', selection') = MtimeOrder[Len(MtimeOrder)]
             /\ (seeking /\ f_last = "ToPrevMtime" /\ MtimePos > 0)
                => EntryAt(content', selection') = MtimeOrder[MtimePos]]_vars

\* A call of movement or do_action on the file panel.
ActingStep == File_movement \/ File_do_action \/ File_filter

\* current_item names the listed entry under the selection.
CurrentInSync == current_item = EntryAt(content, selection)

\* C21: after every movement or do_action call on the file panel returns,
\* current_item is the entry at index selection of the listed entries (for
\* a listing with entries), also when the entry selected before is no longer
\* listed and the selection fell back to index 0.  Stated as the step that
\* keeps it so: a call that starts with current_item on the selected entry
\* ends with current_item on the selected entry.
C21_CurrentItemInSync ==
    [][(ActingStep /\ CurrentInSync /\ fault' = "none"
           /\ Visible(content') # << >>
           /\ Range(Visible(content')) \subseteq Universe)
        => current_item' = EntryAt(content', selection')]_vars

\* C22: in the process panel, after each on_key call has refreshed the panel
\* (the handler is at its draw), the viewport invariants hold:
\* selection < len when len > 0, selection = 0 when len = 0,
\* offset <= selection and selection - offset < viewport height.
C22_PanelViewport ==
    (ui_pc = "draw" /\ fault = "none")
        => /\ IF Len(plist) > 0 THEN selection < Len(plist) ELSE selection = 0
           /\ offset <= selection
           /\ selection - offset < ysize

\* on_key(Up / 'p') of the process panel: move_up, then the refresh.
PanelMoveUp ==
    /\ fault = "none" /\ ui_pc = "idle"
    /\ SetPView(procview_refresh(move_up(PView), plist, p_output))

\* C23: move_up with selection > 0 decrements selection by exactly 1 and
\* decrements offset by exactly 1 if and only if selection = offset before
\* the call; otherwise offset is unchanged.
C23_MoveUpStep ==
    [][(PanelMoveUp /\ selection > 0)
        => /\ fault' = "none"
           /\ selection' = selection - 1
           /\ offset' = IF selection = offset THEN offset - 1 ELSE offset]_vars

\* The indices the fan-out visits, from the builder's inputs alone.
FanOutRange ==
    skip_take(b_len, IF b_meta_all THEN 0 ELSE offset, b_meta_upto)

\* C24: the fan-out processes every entry of the populate range exactly
\* once and no entry is handed to two workers; build returns only after
\* every worker has finished; and the metadata of the listing that build
\* returns is fixed by the builder's inputs (the entries visited, less those
\* whose metadata cannot be read), whatever the order the workers finish in.
C24_FanOutOrderFree ==
    /\ \A i \in Indices(b_len) : b_calls[i] <= 1
    /\ b_pc = "done" =>
          /\ b_pending = {} /\ b_active = {}
          /\ \A i \in PopulateRange : b_calls[i] = 1
          /\ b_meta = FanOutRange \ b_fail

\* Two workers are busy while an entry after theirs is already populated.
C24_Witness ==
    /\ b_pc = "fanout"
    /\ \E i \in b_active : \E k \in b_active : \E j \in b_meta :
          i < j /\ i # k

\* C25: once the source is resolved, marking the staleness token stale
\* during the fan-out neither stops nor shortens it: the build does not
\* fail, and when it returns the whole populate range has been processed,
\* every worker has finished and the metadata is what it is without the
\* mark.
C25_StaleMarkIgnored ==
    b_stale =>
        /\ b_pc \in {"fanout", "done"}
        /\ b_pc = "done" =>
              /\ b_pending = {} /\ b_active = {}
              /\ \A i \in PopulateRange : b_calls[i] = 1 /\ i \notin b_active
              /\ \A i \in PopulateRange \ b_fail : i \in b_meta

\* Build returned a view with several entries populated although the token
\* was marked stale while the fan-out ran.
C25_Witness ==
    /\ b_pc = "done"
    /\ b_stale
    /\ Cardinality(PopulateRange) >= 2
    /\ PopulateRange \subseteq b_meta

\* The preview is the blank TextView.
BlankPreview(pv) == pv.proc = 0 /\ pv.text = << >>

\* C26: the preview text show_output installs is the selected process's
\* output buffer as it is at the swap; no step of a reader thread changes
\* the preview; and a refresh that finds the selection index it is already
\* viewing performs no swap.
C26_PreviewIsSnapshot ==
    [][/\ (preview' # preview /\ ~BlankPreview(preview'))
          => /\ viewing' # viewing
             /\ viewing' = Some(selection')
             /\ selection' < Len(plist')
             /\ preview'.proc = plist'[selection' + 1]
             /\ preview'.text = p_output[preview'.proc]
       /\ (\E p \in ProcIds : ReaderStep(p)) => preview' = preview
       /\ (UI_refresh /\ viewing = Some(selection')) => preview' = preview]_vars

\* The buffer has grown since the swap and the preview still shows the
\* text of the swap.
C26_Witness ==
    /\ ui_pc = "idle"
    /\ viewing = Some(selection)
    /\ preview.proc = 1
    /\ preview.text # << >>
    /\ Len(p_output[1]) > Len(preview.text)

\* A call of select_next_mtime or select_prev_mtime through do_action.
MtimeStep == NextMtimeStep \/ PrevMtimeStep

\* on_key Up / Down of the file panel: n calls of move_up or move_down.
UpDownStep ==
    \E m \in {"Up", "Down"} : \E n \in 1 .. MaxMove :
        FileStep(m, movement(FView, m, n, ysize))

\* C27: a select_next_mtime or select_prev_mtime call that returns leaves
\* the sort key and the dirs_first flag as they were before the call, with
\* the entries in the order of those settings, and seeking set; a later
\* move_up or move_down that changes the selection resets seeking.
C27_MtimeRestoresSort ==
    [][/\ (MtimeStep /\ fault' = "none")
          => /\ content'.sort = content.sort
             /\ content'.dirs_first = content.dirs_first
             /\ content'.reverse = content.reverse
             /\ content' = files_sort(content')
             /\ seeking'
       /\ (UpDownStep /\ selection' # selection) => ~seeking']_vars

\* After a walk step from a listing sorted by size with directories first
\* and several entries, the settings are those and seeking is set.
C27_Witness ==
    /\ f_last \in {"ToNextMtime", "ToPrevMtime"}
    /\ fault = "none"
    /\ seeking
    /\ content.sort = "Size"
    /\ content.dirs_first
    /\ FLen(content) >= 2

\* C28: search_next matches without regard to letter case on either side:
\* on a listing whose entries are all listed, it finds (and moves the
\* selection to) an entry after the selection exactly when the name of
\* one contains the stored pattern with case ignored, so also for a
\* pattern with upper-case letters.
C28_SearchIgnoresCase ==
    [][(SearchNextStep /\ searching # None /\ fault = "none"
           /\ Visible(content) = content.files)
        => (selection' > selection <=> LaterMatches # {})]_vars

\* A call of search_prev through do_action.
SearchPrevStep ==
    FileStep("SearchPrev", do_action(FView, "SearchPrev", << >>, "enter", ysize))

\* The listed positions (0-based) before the selection whose name contains
\* the pattern, letters compared without regard to case.
EarlierMatches ==
    { i \in 0 .. selection - 1 :
        Contains(to_lowercase(FileName(Visible(content)[i + 1])),
                 to_lowercase(searching[1])) }

\* C29: with a pattern set, search_prev selects the nearest entry before
\* the selection whose name matches; when there is none it leaves the
\* selected entry, the sort direction and the order of the entries as they
\* were before the call.  Stated for listings sorted without dirs_first,
\* whose reversed order is the mirror image of the order.
C29_SearchPrevBackward ==
    [][(SearchPrevStep /\ searching # None /\ fault = "none"
           /\ selection < FLen(content) /\ ~content.dirs_first)
        => /\ fault' = "none"
           /\ IF EarlierMatches # {}
              THEN /\ selection' \in EarlierMatches
                   /\ \A i \in EarlierMatches : i <= selection'
              ELSE /\ EntryAt(content', selection') = EntryAt(content, selection)
                   /\ content'.reverse = content.reverse
                   /\ content'.files = content.files]_vars

\* run_proc of the process panel, up to the start of the reader thread.
RunProcStart == UI_run_proc(MaxPanelProcs, PlainCmds)

\* The step makes one new process with empty fields and starts one reader
\* thread, for it; the panel is as it was.
StartsFresh ==
    /\ spawned' = spawned + 1
    /\ p_output[spawned'] = << >>
    /\ p_status[spawned'] = None
    /\ p_success[spawned'] = None
    /\ r_pc[spawned'] = "none" /\ r_pc'[spawned'] = "fill"
    /\ \A q \in ProcIds \ {spawned'} : r_pc'[q] = r_pc[q]
    /\ UNCHANGED <<plist, selection, offset, fieldVars>>

\* The step appends the new process at the end and changes nothing else of
\* the panel, nor any process's fields or reader thread.
AppendsLast ==
    /\ plist' = Append(plist, spawned)
    /\ UNCHANGED <<selection, offset, spawned, fieldVars, readerVars>>

\* C30 as stated: the process run_proc appends has, when it is appended,
\* empty output, status = None and success = None; one reader thread is
\* started for it; the processes already listed, the selection and the
\* offset are unchanged; a failed spawn appends nothing.
C30_AppendedFresh ==
    [][/\ RunProcStart => StartsFresh
       /\ UI_push => /\ AppendsLast
                     /\ p_output[spawned] = << >>
                     /\ p_status[spawned] = None
                     /\ p_success[spawned] = None
       /\ UI_run_proc_fail => UNCHANGED <<plist, spawned, readerVars>>]_vars

\* C30 amended: run_proc makes the process with empty output, status = None
\* and success = None and starts one reader thread for it, then appends it
\* at the end, leaving the processes already listed, the selection and the
\* offset unchanged; a failed spawn appends nothing.  The fields of the
\* process may already have been written by its reader thread when it is
\* appended.
C30_CreatedFreshThenAppended ==
    [][/\ RunProcStart => StartsFresh
       /\ UI_push => AppendsLast
       /\ UI_run_proc_fail => UNCHANGED <<plist, spawned, readerVars>>]_vars

\* run_proc is about to append, to a panel with a process, a process whose
\* status its reader thread has already set.
C30_Witness ==
    /\ ui_pc = "append"
    /\ Len(plist) >= 1
    /\ p_status[spawned] # None

(***************************************************************************)
(* C31: on an empty process panel the keys 'd' and 'k' do not panic and    *)
(* leave the process list, selection, offset and previewed index as they   *)
(* were; 'd' goes on to refresh and draw, 'k' returns the error of         *)
(* selected_proc()? at once, without refresh and draw, and kills nothing.  *)
(***************************************************************************)
KeyKillEmpty == Len(plist) = 0 /\ UI_kill

C31_EmptyPanelKeys ==
    [][ Len(plist) = 0 =>
           /\ (UI_key_d_empty \/ KeyKillEmpty) =>
                  /\ fault' = "none"
                  /\ UNCHANGED <<plist, selection, offset, viewing, preview>>
           /\ UI_key_d_empty => ui_pc' = "draw"
           /\ KeyKillEmpty => (ui_pc' = "idle" /\ UNCHANGED childVars)
      ]_vars

\* 'd' on a panel emptied by an earlier 'd': the handler is at its draw, the
\* removed process is gone and the previewed index is still set.
C31_Witness ==
    /\ Len(plist) = 0
    /\ spawned >= 1
    /\ ui_pc = "draw"
    /\ ui_removed = 0
    /\ viewing = Some(0)
    /\ fault = "none"

(***************************************************************************)
(* C32: in every reachable state, under every interleaving of the reader   *)
(* threads with the UI thread, a process whose status is Some has its      *)
(* success flag Some: the reader writes success before status, so whoever  *)
(* reads an exit code finds the success flag set.                          *)
(***************************************************************************)
C32_SuccessBeforeStatus ==
    \A p \in ProcIds : p_status[p] # None => p_success[p] # None

\* The UI thread is at its draw while the reader of a listed process that
\* failed is between its two writes: success is set, status is not yet.
C32_Witness ==
    \E p \in ProcIds :
        /\ ui_pc = "draw"
        /\ \E i \in 1 .. Len(plist) : plist[i] = p
        /\ r_pc[p] = "set_status"
        /\ p_success[p] = Some(FALSE)
        /\ p_status[p] = None

(***************************************************************************)
(* The locks of one process.  Each of its four mutable fields is behind    *)
(* its own Mutex; here the first process is followed lock by lock: taking  *)
(* a lock and dropping its guard are separate steps of the reader thread   *)
(* (t_pc) and of the UI thread (u_op, u_at), and lk says who holds what.   *)
(* A guard made within a statement is dropped at the end of the            *)
(* statement; a guard bound by `let` is dropped at the end of its block;   *)
(* the guard in the scrutinee of `if let` is dropped after its body.       *)
(***************************************************************************)
LockedProc == 1

\* The reader thread at a Mutex::lock: it goes on once the lock is free.
TLock(x, from, to) ==
    /\ t_pc = from
    /\ lk[x] = "free"
    /\ lk' = [lk EXCEPT ![x] = "reader"]
    /\ t_pc' = to
    /\ UNCHANGED <<u_op, u_at, childVars, readerVars, fieldVars, uiVars>>
    /\ UNCHANGED <<viewVars, navVars, fileVars, buildVars>>

\* let stdout = handle.lock()?.stdout.take()?;
T_take_unlock ==
    /\ t_pc = "take_held"
    /\ lk' = [lk EXCEPT !["handle"] = "free"]
    /\ t_pc' = "fill"
    /\ UNCHANGED <<u_op, u_at, childVars, readerVars, fieldVars, uiVars>>
    /\ UNCHANGED <<viewVars, navVars, fileVars, buildVars>>

\* stdout.fill_buf() returns the bytes in the pipe; no lock is held.
T_fill_data ==
    /\ t_pc = "fill"
    /\ c_pipe[LockedProc] # << >>
    /\ r_chunk' = [r_chunk EXCEPT ![LockedProc] = c_pipe[LockedProc]]
    /\ c_pipe' = [c_pipe EXCEPT ![LockedProc] = << >>]
    /\ t_pc' = "push"
    /\ UNCHANGED <<lk, u_op, u_at, c_state, c_todo, c_exit, r_pc, r_log, handle_locked>>
    /\ UNCHANGED <<fieldVars, uiVars, viewVars, navVars, fileVars, buildVars>>

\* fill_buf() returns an empty buffer at end of file: the processor returns.
T_fill_eof ==
    /\ t_pc = "fill"
    /\ c_pipe[LockedProc] = << >>
    /\ c_state[LockedProc] \in {"closed", "exited", "reaped"}
    /\ t_pc' = "wait"
    /\ UNCHANGED <<lk, u_op, u_at, childVars, readerVars, fieldVars, uiVars>>
    /\ UNCHANGED <<viewVars, navVars, fileVars, buildVars>>

\* output.lock()?.push_str(&buffer);
T_push_unlock ==
    /\ t_pc = "push_held"
    /\ p_output' = [p_output EXCEPT ![LockedProc] = push_str(@, r_chunk[LockedProc])]
    /\ r_chunk' = [r_chunk EXCEPT ![LockedProc] = << >>]
    /\ lk' = [lk EXCEPT !["output"] = "free"]
    /\ t_pc' = "fill"
    /\ UNCHANGED <<u_op, u_at, childVars, r_pc, r_log, handle_locked>>
    /\ UNCHANGED <<p_cmd, p_status, p_success, p_events>>
    /\ UNCHANGED <<uiVars, viewVars, navVars, fileVars, buildVars>>

\* if let Ok(proc_status) = handle.lock()?.wait() { .. }: the guard lives
\* until the end of the `if let`.
\* wait() returns once the child has exited.
T_wait ==
    /\ t_pc = "waiting"
    /\ c_state[LockedProc] = "exited"
    /\ c_state' = [c_state EXCEPT ![LockedProc] = "reaped"]
    /\ t_pc' = "set_success"
    /\ UNCHANGED <<lk, u_op, u_at, c_todo, c_pipe, c_exit, readerVars, fieldVars, uiVars>>
    /\ UNCHANGED <<viewVars, navVars, fileVars, buildVars>>

\* *success.lock()? = Some(proc_success);
T_success_unlock ==
    /\ t_pc = "success_held"
    /\ p_success' = [p_success EXCEPT ![LockedProc] = Some(exit_success(c_exit[LockedProc]))]
    /\ lk' = [lk EXCEPT !["success"] = "free"]
    /\ t_pc' = "set_status"
    /\ UNCHANGED <<u_op, u_at, childVars, readerVars>>
    /\ UNCHANGED <<p_cmd, p_output, p_status, p_events>>
    /\ UNCHANGED <<uiVars, viewVars, navVars, fileVars, buildVars>>

\* *status.lock()? = Some(proc_status);
T_status_unlock ==
    /\ t_pc = "status_held"
    /\ p_status' = [p_status EXCEPT ![LockedProc] = Some(exit_status(c_exit[LockedProc]))]
    /\ lk' = [lk EXCEPT !["status"] = "free"]
    /\ t_pc' = "send_exit"
    /\ UNCHANGED <<u_op, u_at, childVars, readerVars>>
    /\ UNCHANGED <<p_cmd, p_output, p_success, p_events>>
    /\ UNCHANGED <<uiVars, viewVars, navVars, fileVars, buildVars>>

\* The terminal event is sent and the `if let` ends: the handle guard is dropped.
T_exit_unlock ==
    /\ t_pc = "send_exit"
    /\ lk' = [lk EXCEPT !["handle"] = "free"]
    /\ t_pc' = "done"
    /\ UNCHANGED <<u_op, u_at, childVars, readerVars, fieldVars, uiVars>>
    /\ UNCHANGED <<viewVars, navVars, fileVars, buildVars>>

\* The lock operations of the UI thread's calls on a process, in program order.
\* render_proc: pid under the handle lock, then the status, then the success flag.
render_proc_locks ==
    << <<"lock", "handle">>, <<"unlock", "handle">>,
       <<"lock", "status">>, <<"unlock", "status">>,
       <<"lock", "success">>, <<"unlock", "success">> >>

render_footer_pid_last ==
    << <<"lock", "status">>, <<"lock", "success">>,
       <<"lock", "handle">>, <<"unlock", "handle">>,
       <<"unlock", "success">>, <<"unlock", "status">> >>

\* render_footer: pid under the handle lock; then the guards proc_status and
\* proc_success are bound and held to the end of the block.
render_footer_locks ==
    << <<"lock", "handle">>, <<"unlock", "handle">>,
       <<"lock", "status">>, <<"lock", "success">>,
       <<"unlock", "success">>, <<"unlock", "status">> >>

\* show_output: selected_proc()?.output.lock()?.clone()
show_output_locks == << <<"lock", "output">>, <<"unlock", "output">> >>

\* kill_proc: proc.handle.lock()?.kill()?
kill_proc_locks == << <<"lock", "handle">>, <<"unlock", "handle">> >>

LockOps(op) ==
    CASE op = "render_proc" -> render_proc_locks
      [] op = "render_footer" -> render_footer_locks
      [] op = "show_output" -> show_output_locks
      [] op = "kill_proc" -> kill_proc_locks
      [] OTHER -> << >>

\* The UI thread calls one of the four operations on the process.
U_call ==
    /\ u_op = "none"
    /\ u_op' \in {"render_proc", "render_footer", "show_output", "kill_proc"}
    /\ u_at' = 0
    /\ UNCHANGED <<lk, t_pc, childVars, readerVars, fieldVars, uiVars>>
    /\ UNCHANGED <<viewVars, navVars, fileVars, buildVars>>

\* Mutex::lock blocks until the lock is free.
U_lock ==
    /\ u_at < Len(LockOps(u_op))
    /\ LockOps(u_op)[u_at + 1][1] = "lock"
    /\ lk[LockOps(u_op)[u_at + 1][2]] = "free"
    /\ lk' = [lk EXCEPT ![LockOps(u_op)[u_at + 1][2]] = "ui"]
    /\ u_at' = u_at + 1
    /\ UNCHANGED <<t_pc, u_op, childVars, readerVars, fieldVars, uiVars>>
    /\ UNCHANGED <<viewVars, navVars, fileVars, buildVars>>

\* The guard is dropped; kill_proc has sent its signal under the handle lock.
U_unlock ==
    /\ u_at < Len(LockOps(u_op))
    /\ LockOps(u_op)[u_at + 1][1] = "unlock"
    /\ lk' = [lk EXCEPT ![LockOps(u_op)[u_at + 1][2]] = "free"]
    /\ u_at' = u_at + 1
    /\ IF u_op = "kill_proc" THEN child_kill(LockedProc) ELSE UNCHANGED childVars
    /\ UNCHANGED <<t_pc, u_op, readerVars, fieldVars, uiVars>>
    /\ UNCHANGED <<viewVars, navVars, fileVars, buildVars>>

U_return ==
    /\ u_op # "none"
    /\ u_at = Len(LockOps(u_op))
    /\ u_op' = "none"
    /\ u_at' = 0
    /\ UNCHANGED <<lk, t_pc, childVars, readerVars, fieldVars, uiVars>>
    /\ UNCHANGED <<viewVars, navVars, fileVars, buildVars>>

\* run_proc has spawned the first process and pushed it; its reader starts.
LocksInit ==
    /\ ViewInit
    /\ NavIdle
    /\ FileIdle
    /\ BuildIdle
    /\ ysize = MaxProcYSize
    /\ \E cmd \in RichCmds :
          /\ p_cmd = [p \in ProcIds |-> IF p = LockedProc THEN cmd ELSE NoCmd]
          /\ c_todo = [p \in ProcIds |-> IF p = LockedProc THEN cmd.out ELSE << >>]
    /\ c_state = [p \in ProcIds |-> IF p = LockedProc THEN "running" ELSE "none"]
    /\ c_pipe = [p \in ProcIds |-> << >>]
    /\ c_exit = [p \in ProcIds |-> NoExit]
    /\ r_pc = [p \in ProcIds |-> "none"]
    /\ r_chunk = [p \in ProcIds |-> << >>]
    /\ r_log = [p \in ProcIds |-> << >>]
    /\ handle_locked = {}
    /\ p_output = [p \in ProcIds |-> << >>]
    /\ p_status = [p \in ProcIds |-> None]
    /\ p_success = [p \in ProcIds |-> None]
    /\ p_events = [p \in ProcIds |-> << >>]
    /\ plist = <<LockedProc>>
    /\ spawned = 1
    /\ viewing = None
    /\ preview = [proc |-> 0, text |-> << >>]
    /\ ui_pc = "idle"
    /\ ui_removed = 0
    /\ lk = [x \in Locks |-> "free"]
    /\ t_pc = "take"
    /\ u_op = "none"
    /\ u_at = 0

LocksNext ==
    \/ Child_write(LockedProc)
    \/ Child_close(LockedProc)
    \/ Child_exit(LockedProc)
    \/ TLock("handle", "take", "take_held")
    \/ T_take_unlock
    \/ T_fill_data
    \/ T_fill_eof
    \/ TLock("output", "push", "push_held")
    \/ T_push_unlock
    \/ TLock("handle", "wait", "waiting")
    \/ T_wait
    \/ TLock("success", "set_success", "success_held")
    \/ T_success_unlock
    \/ TLock("status", "set_status", "status_held")
    \/ T_status_unlock
    \/ T_exit_unlock
    \/ U_call
    \/ U_lock
    \/ U_unlock
    \/ U_return

SpecLocks == LocksInit /\ [][LocksNext]_vars

\* The locks a thread holds, and the lock it is about to take.
Holds(t) == { x \in Locks : lk[x] = t }

ReaderWants ==
    CASE t_pc \in {"take", "wait"} -> {"handle"}
      [] t_pc = "push" -> {"output"}
      [] t_pc = "set_success" -> {"success"}
      [] t_pc = "set_status" -> {"status"}
      [] OTHER -> {}

UIWants ==
    IF u_at < Len(LockOps(u_op)) /\ LockOps(u_op)[u_at + 1][1] = "lock"
    THEN {LockOps(u_op)[u_at + 1][2]}
    ELSE {}

(***************************************************************************)
(* C33: the locks of a process cannot deadlock: in no interleaving of its  *)
(* reader thread with the UI thread's render_proc, render_footer,          *)
(* show_output and kill_proc is there a state where each thread holds a    *)
(* lock of the process and waits for a lock the other holds.               *)
(***************************************************************************)
C33_NoLockCycle ==
    ~ /\ ReaderWants \cap Holds("ui") # {}
      /\ UIWants \cap Holds("reader") # {}

\* render_footer holds the guards of status and success, and the reader,
\* which holds the handle lock after wait(), waits for the success lock.
C33_Witness ==
    /\ Holds("ui") = {"status", "success"}
    /\ Holds("reader") = {"handle"}
    /\ ReaderWants = {"success"}

\* ProcView::render_footer: what the footer says of the selected process,
\* given the status and success fields of the processes.
render_footer(v, list, statuses, successes) ==
    IF selected_proc(v, list) = 0 THEN "No proccesses"
    ELSE IF statuses[selected_proc(v, list)] = None THEN "still running"
    ELSE IF successes[selected_proc(v, list)] # None THEN "successfully"
    ELSE "unsuccessfully"

(***************************************************************************)
(* C34: for an exited process (its status is set) the footer says          *)
(* "successfully" exactly when success = Some(true) and "unsuccessfully"   *)
(* exactly when success = Some(false).                                     *)
(***************************************************************************)
C34_FooterWording ==
    (selected_proc(PView, plist) # 0 /\ p_status[selected_proc(PView, plist)] # None)
        => /\ render_footer(PView, plist, p_status, p_success) = "successfully"
                <=> p_success[selected_proc(PView, plist)] = Some(TRUE)
           /\ render_footer(PView, plist, p_status, p_success) = "unsuccessfully"
                <=> p_success[selected_proc(PView, plist)] = Some(FALSE)

\* The entries of the directory that the listing shows (a placeholder row is none).
RealVisible(c) == Range(Visible(c)) \cap Universe

====
